---- MODULE Spec2Model ----
(***************************************************************************)
(* Model of the minion-backend scan engine: the scan API of                *)
(* minion/backend/api.py (create, control, read), the Alive and            *)
(* XFrameOptions plugins of minion/plugins/basic.py, and the celery        *)
(* workers (scan_worker.scan, state_worker.scan_stop) that api.py hands    *)
(* scan ids to.  The workers live outside minion/backend/api.py; their     *)
(* steps follow sections 4.1, 4.4, 4.5 and 5 of the specification.         *)
(***************************************************************************)
EXTENDS Integers, Sequences, FiniteSets, TLC

VARIABLES
    scans,        \* the mongo collection minion.scans, in insertion order
    clock,        \* the value the next call of datetime.datetime.utcnow() returns, in ticks
    nextId,       \* the next value uuid.uuid4() hands out
    scanQueue,    \* celery queue 'scan': scan ids handed to scan_worker.scan
    stateQueue,   \* celery queue 'state': scan ids handed to state_worker.scan_stop
    running,      \* ids of the scans a worker is driving
    inflight,     \* scan id -> index of the session whose plugin call is active, 0 if none
    stopObserved, \* ids of the scans for which a stop signal has been processed
    last,         \* the last request handled or worker step taken, with its response
    requests,     \* requests being handled: each has read the database and not yet written or answered
    edits,        \* the plans edited and the plugins upgraded since the catalog and registry were loaded
    startup,      \* the import of api.py: which plugins can be imported, the class names still to
                  \* register, and the registry (the dict plugins) built so far
    db            \* the mongo collections minion.users, minion.groups and minion.invites as the
                  \* invitation handlers use them, and the messages the mail server has accepted

vars == <<scans, clock, nextId, scanQueue, stateQueue, running, inflight, stopObserved, last, requests, edits,
          startup, db>>

----------------------------------------------------------------------------
(* Bounds of the model *)

MaxScans == 1      \* scans created in one behaviour
MaxClock == 3      \* last tick of the clock
MaxQueue == 1      \* stop signals waiting in the 'state' queue
MaxRequests == 2   \* control requests handled at the same time
MaxIssues == 2     \* issues a plugin reports while it runs

----------------------------------------------------------------------------
(* Values *)

\* Python's None in a timestamp or progress field (timestamps are >= 0)
None == -1

\* ticks per second: datetimes carry sub-second precision, timegm() drops it
TicksPerSecond == 2

ScanStates == {"CREATED", "QUEUED", "STARTED", "STOPPING", "FINISHED", "STOPPED", "FAILED"}
ScanTerminal == {"FINISHED", "STOPPED", "FAILED"}
SessionStates == {"CREATED", "QUEUED", "STARTED", "FINISHED", "FAILED", "ABORTED", "STOPPED"}
SessionTerminal == {"FINISHED", "FAILED", "ABORTED", "STOPPED"}

\* the commands a client may send to /scans/<id>/control
Commands == {"START", "STOP", "PAUSE"}

\* an id no uuid4() call ever returns
NoSuchId == 0

EmptyDict == [k \in {} |-> ""]

\* dict.update the wrong way round: the keys of d are kept
DictUpdate_keeps(d, e) == [k \in (DOMAIN d) \cup (DOMAIN e) |-> IF k \in DOMAIN d THEN d[k] ELSE e[k]]

\* dict.update: every key of e overrides the key of d (top level only)
DictUpdate(d, e) == [k \in (DOMAIN d) \cup (DOMAIN e) |-> IF k \in DOMAIN e THEN e[k] ELSE d[k]]

----------------------------------------------------------------------------
(* Plugin registry and plan catalog *)

AlivePluginName == "minion.plugins.basic.AlivePlugin"
XFrameOptionsPluginName == "minion.plugins.basic.XFrameOptionsPlugin"

\* _plugin_descriptor(plugin)
plugin_descriptor(class, name, weight) ==
    [class |-> class, name |-> name, version |-> "0.0", weight |-> weight]

\* the registry built at import time from BUILTIN_PLUGINS
plugins ==
    (AlivePluginName :> [descriptor |-> plugin_descriptor(AlivePluginName, "Alive", "light")])
    @@ (XFrameOptionsPluginName :> [descriptor |-> plugin_descriptor(XFrameOptionsPluginName, "XFrameOptions", "light")])

\* the allow-list: two of the built-in plugins and two of the optional ones
NMAPPluginName == "minion.plugins.nmap.NMAPPlugin"
SSLPluginName == "minion.plugins.ssl.SSLPlugin"

BUILTIN_PLUGINS == <<AlivePluginName, XFrameOptionsPluginName>>

OPTIONAL_PLUGINS == <<NMAPPluginName, SSLPluginName>>

\* the class names in the order in which the three loops register them
AllowList == BUILTIN_PLUGINS \o OPTIONAL_PLUGINS

AllowListed == { AllowList[i] : i \in 1..Len(AllowList) }

\* what importing the module of a plugin does: it succeeds or raises ImportError
LoadOutcomes == {"loaded", "ImportError"}

\* _plugin_descriptor of the class that a successful import gives
loaded_descriptor(plugin_class_name) ==
    IF plugin_class_name \in DOMAIN plugins THEN plugins[plugin_class_name].descriptor
    ELSE IF plugin_class_name = NMAPPluginName
    THEN [class |-> NMAPPluginName, name |-> "NMAP", version |-> "0.2", weight |-> "light"]
    ELSE [class |-> SSLPluginName, name |-> "SSL", version |-> "0.1", weight |-> "light"]

\* the registry before the first plugin is registered: plugins = {}
EmptyRegistry == [k \in {} |-> [descriptor |-> plugin_descriptor("", "", "")]]

\* the import of api.py on a host where the built-in plugins can be imported
\* and the optional ones cannot, after the loops have run
Built ==
    [loads |-> [n \in AllowListed |-> IF n \in DOMAIN plugins THEN "loaded" ELSE "ImportError"],
     pending |-> << >>,
     plugins |-> plugins]

\* base configurations of the steps of the plan "configured": one with a
\* nested map, one with top-level keys only
AuthBase == [type |-> "basic", user |-> "admin"]
StepBaseNested == [timeout |-> "5", auth |-> AuthBase]
StepBaseFlat == [timeout |-> "5", target |-> "http://default.example"]

\* the collection minion.plans: the two-step plan (Alive, XFrameOptions), a
\* plan that runs the same two plugins the other way round, and a plan whose
\* steps carry base configurations
plans ==
    ("basic" :>
        [name |-> "basic",
         description |-> "Run basic tests",
         workflow |-> << [plugin_name |-> AlivePluginName,
                          description |-> "Check if the site is alive",
                          configuration |-> EmptyDict],
                         [plugin_name |-> XFrameOptionsPluginName,
                          description |-> "Check X-Frame-Options",
                          configuration |-> EmptyDict] >>])
    @@ ("headers-first" :>
        [name |-> "headers-first",
         description |-> "Check the headers, then the site",
         workflow |-> << [plugin_name |-> XFrameOptionsPluginName,
                          description |-> "Check X-Frame-Options",
                          configuration |-> EmptyDict],
                         [plugin_name |-> AlivePluginName,
                          description |-> "Check if the site is alive",
                          configuration |-> EmptyDict] >>])
    @@ ("nmap" :>
        [name |-> "nmap",
         description |-> "Run an nmap scan",
         workflow |-> << [plugin_name |-> AlivePluginName,
                          description |-> "Check if the site is alive",
                          configuration |-> EmptyDict],
                         [plugin_name |-> NMAPPluginName,
                          description |-> "Run the NMAP scanner.",
                          configuration |-> EmptyDict] >>])
    @@ ("configured" :>
        [name |-> "configured",
         description |-> "Run basic tests with configured steps",
         workflow |-> << [plugin_name |-> AlivePluginName,
                          description |-> "Check if the site is alive",
                          configuration |-> StepBaseNested],
                         [plugin_name |-> XFrameOptionsPluginName,
                          description |-> "Check X-Frame-Options",
                          configuration |-> StepBaseFlat] >>])

\* a plan after an edit: its first step has another description and another
\* base configuration
EditedPlan(plan) ==
    [plan EXCEPT !.description = "edited",
                 !.workflow[1].description = "edited",
                 !.workflow[1].configuration = [timeout |-> "60"]]

\* a plugin's descriptor after an upgrade of the plugin
UpgradedDescriptor(descriptor) == [descriptor EXCEPT !.version = "0.1"]

\* plan names a client asks for
PlanNames == {"basic", "nosuchplan"}

\* plan names of a client that runs the header check first
HeadersFirstPlanNames == {"headers-first", "nosuchplan"}

\* request configurations a client sends with POST /scans
Configurations == { [target |-> "http://localhost:1234"] }

\* plan names and request configurations of clients that configure their
\* scans: a key no step defines, a key the steps define too, and a nested map
\* under a key a step defines too
CreatePlanNames == {"basic", "headers-first", "configured", "nosuchplan"}

CreateConfigurations ==
    { [target |-> "http://localhost:1234"],
      [target |-> "http://localhost:1234", timeout |-> "30"],
      [target |-> "http://localhost:1234", auth |-> [user |-> "alice"]],
      [target |-> "http://localhost:1234", timeout |-> "30", auth |-> [user |-> "alice"]] }

\* the collections minion.users and minion.groups: one user in the group
\* that holds the target site, one user in no group
MemberEmail == "user@example.org"
OutsiderEmail == "fakeuser@example.org"
UnknownEmail == "nobody@example.org"

users == {MemberEmail, OutsiderEmail}

groups == { [name |-> "test", users |-> {MemberEmail}, sites |-> {"http://localhost:1234"}] }

\* request.args.get('user') when the query has no user (Python's None)
NoEmail == ""

\* _find_sites_for_user(email)
find_sites_for_user(email) == UNION { g.sites : g \in { h \in groups : email \in h.users } }

\* request configurations of these clients: the site of the group and a site
\* of no group
RequesterConfigurations ==
    { [target |-> "http://localhost:1234"], [target |-> "http://other.example"] }

\* the JSON bodies clients POST to /scans on behalf of a user
CreateRequests ==
    { [user |-> u, plan |-> p, configuration |-> c] :
        u \in users, p \in PlanNames, c \in RequesterConfigurations }

\* the collections of users, groups and invitations before anything is
\* stored in them, and a mail server that has accepted no message
EmptyDatabase ==
    [users |-> {}, groups |-> [g \in {} |-> << >>], invites |-> << >>, outbox |-> {}]

----------------------------------------------------------------------------
(* The scans collection *)

\* scans.find_one({"id": scan_id}): index of the first match, 0 when there is none
find_one(scan_id) ==
    IF \E i \in 1..Len(scans) : scans[i].id = scan_id
    THEN CHOOSE i \in 1..Len(scans) :
            /\ scans[i].id = scan_id
            /\ \A j \in 1..(i - 1) : scans[j].id # scan_id
    ELSE 0

ScanIds == { scans[i].id : i \in 1..Len(scans) }

Scan(scan_id) == scans[find_one(scan_id)]

Sessions(scan_id) == Scan(scan_id).sessions

\* number of messages for scan_id waiting in a queue
Count(q, scan_id) == Cardinality({ i \in 1..Len(q) : q[i] = scan_id })

\* the queue without its message at position i
RemoveAt(q, i) == SubSeq(q, 1, i - 1) \o SubSeq(q, i + 1, Len(q))

\* the clock after a call of utcnow(): every call is later than the one
\* before, until the clock reaches its last tick
Later(now) == IF now < MaxClock THEN now + 1 ELSE now

\* calendar.timegm(t.utctimetuple()): whole seconds, None is left alone
timegm(t) == IF t = None THEN None ELSE t \div TicksPerSecond

NoEvent == [op |-> "none", id |-> NoSuchId, state |-> "", success |-> TRUE, error |-> ""]

Event(op, id, state, success, error) ==
    [op |-> op, id |-> id, state |-> state, success |-> success, error |-> error]

----------------------------------------------------------------------------
(* POST /scans *)

\* the plan stored under a name of the catalog, as it is now
stored_plan(plan_name) ==
    IF plan_name \in edits.plans THEN EditedPlan(plans[plan_name]) ELSE plans[plan_name]

\* plugins[plugin_name]['descriptor'], as the registry is now
registry_descriptor(plugin_name) ==
    IF plugin_name \in edits.plugins
    THEN UpgradedDescriptor(startup.plugins[plugin_name].descriptor)
    ELSE startup.plugins[plugin_name].descriptor

\* new_session that stamps the session as queued when it is created
new_session_stamped(id, step, configuration, now) ==
    [id |-> id,
     state |-> "CREATED",
     plugin |-> registry_descriptor(step.plugin_name),
     configuration |-> DictUpdate(step.configuration, configuration),
     description |-> step.description,
     artifacts |-> EmptyDict,
     issues |-> << >>,
     created |-> now,
     queued |-> now,
     started |-> None,
     finished |-> None,
     progress |-> None]

\* one session of a new scan, built from a workflow step
new_session(id, step, configuration, now) ==
    [id |-> id,
     state |-> "CREATED",
     plugin |-> registry_descriptor(step.plugin_name),
     configuration |-> DictUpdate(step.configuration, configuration),
     description |-> step.description,
     artifacts |-> EmptyDict,
     issues |-> << >>,
     created |-> now,
     queued |-> None,
     started |-> None,
     finished |-> None,
     progress |-> None]

new_scan(id, plan, configuration, now) ==
    [id |-> id,
     state |-> "CREATED",
     created |-> now,
     queued |-> None,
     started |-> None,
     finished |-> None,
     plan |-> [name |-> plan.name, revision |-> 0],
     configuration |-> configuration,
     sessions |-> [i \in 1..Len(plan.workflow) |->
                     new_session(id + i, plan.workflow[i], configuration, now)],
     meta |-> [owner |-> "", tags |-> << >>]]

\* what plans.find_one returns when no plan matches (Python's None)
NoPlan == [name |-> "", description |-> "", workflow |-> << >>]

\* plans.find_one that ignores its filter when nothing matches
plans_find_one_any(plan_name) ==
    IF plan_name \in DOMAIN plans THEN stored_plan(plan_name) ELSE stored_plan("basic")

\* plans.find_one({"name": plan_name})
plans_find_one(plan_name) ==
    IF plan_name \in DOMAIN plans THEN stored_plan(plan_name) ELSE NoPlan

\* the steps of a plan for which plugins[step['plugin_name']] raises KeyError
unregistered_steps(plan) ==
    { i \in 1..Len(plan.workflow) : plan.workflow[i].plugin_name \notin DOMAIN startup.plugins }

\* put_scan_create that leaves out the steps whose plugin is not registered
put_scan_create_skips_unregistered(plan_name, configuration) ==
    /\ startup.pending = << >>
    /\ IF plans_find_one(plan_name) = NoPlan
       THEN /\ last' = Event("create", NoSuchId, plan_name, FALSE, "")
            /\ UNCHANGED <<scans, clock, nextId, inflight>>
       ELSE LET now == clock IN
            LET plan == plans_find_one(plan_name)
                registered(step) == step.plugin_name \in DOMAIN startup.plugins
                scan == new_scan(nextId, [plan EXCEPT !.workflow = SelectSeq(@, registered)],
                                 configuration, now)
            IN /\ Len(scans) < MaxScans
               /\ scans' = Append(scans, scan)
               /\ clock' = Later(now)
               /\ nextId' = nextId + 1 + Len(plan.workflow)
               /\ inflight' = inflight @@ (scan.id :> 0)
               /\ last' = Event("create", scan.id, plan_name, TRUE, "")
    /\ UNCHANGED <<scanQueue, stateQueue, running, stopObserved, requests, edits, startup, db>>

\* POST /scans; requests are served once api.py is imported. A KeyError in
\* the loop over the workflow ends the request before scans.insert
put_scan_create(plan_name, configuration) ==
    /\ startup.pending = << >>
    /\ IF plans_find_one(plan_name) = NoPlan
       THEN /\ last' = Event("create", NoSuchId, plan_name, FALSE, "")
            /\ UNCHANGED <<scans, clock, nextId, inflight>>
       ELSE IF unregistered_steps(plans_find_one(plan_name)) # {}
       THEN /\ last' = Event("create", NoSuchId, plan_name, FALSE, "KeyError")
            /\ UNCHANGED <<scans, clock, nextId, inflight>>
       ELSE LET now == clock IN
            LET plan == plans_find_one(plan_name)
                scan == new_scan(nextId, plan, configuration, now)
            IN /\ Len(scans) < MaxScans
               /\ scans' = Append(scans, scan)
               /\ clock' = Later(now)
               /\ nextId' = nextId + 1 + Len(plan.workflow)
               /\ inflight' = inflight @@ (scan.id :> 0)
               /\ last' = Event("create", scan.id, plan_name, TRUE, "")
    /\ UNCHANGED <<scanQueue, stateQueue, running, stopObserved, requests, edits, startup, db>>

----------------------------------------------------------------------------
(* The build of the plugin registry and GET /plans/<plan_name>, GET /plugins *)

\* _register_plugin that registers a plugin whether or not its import worked
register_plugin_always(registry, plugin_class_name, outcome) ==
    registry @@ (plugin_class_name :> [descriptor |-> loaded_descriptor(plugin_class_name)])

\* try: _register_plugin(plugin_class_name) except ImportError: pass
register_plugin(registry, plugin_class_name, outcome) ==
    IF outcome = "loaded"
    THEN registry @@ (plugin_class_name :> [descriptor |-> loaded_descriptor(plugin_class_name)])
    ELSE registry

\* one turn of the loops over BUILTIN_PLUGINS, OPTIONAL_PLUGINS, TEST_PLUGINS
register_next ==
    /\ startup.pending # << >>
    /\ LET plugin_class_name == Head(startup.pending)
       IN startup' = [startup EXCEPT
                         !.pending = Tail(@),
                         !.plugins = register_plugin(@, plugin_class_name,
                                                     startup.loads[plugin_class_name])]
    /\ last' = Event("register", NoSuchId, Head(startup.pending), TRUE, "")
    /\ UNCHANGED <<scans, clock, nextId, scanQueue, stateQueue, running, inflight,
                   stopObserved, requests, edits, db>>

\* sanitize_plan(plan)
sanitize_plan(plan) ==
    IF "created" \in DOMAIN plan THEN [plan EXCEPT !["created"] = timegm(@)] ELSE plan

\* the step of a plan as get_plan returns it: the descriptor is filled in
\* when the registry has the plugin, plugin_name is deleted
get_plan_step(step) ==
    IF step.plugin_name \in DOMAIN startup.plugins
    THEN [description |-> step.description,
          configuration |-> step.configuration,
          plugin |-> startup.plugins[step.plugin_name].descriptor]
    ELSE [description |-> step.description,
          configuration |-> step.configuration]

\* the response of GET /plans/<plan_name>
get_plan_response(plan_name) ==
    IF plans_find_one(plan_name) = NoPlan
    THEN [success |-> FALSE]
    ELSE LET plan == plans_find_one(plan_name)
         IN [success |-> TRUE,
             plan |-> sanitize_plan(
                        [plan EXCEPT !.workflow =
                            [i \in 1..Len(plan.workflow) |-> get_plan_step(plan.workflow[i])]])]

\* the request GET /plans/<plan_name> and its response; requests are served
\* once api.py is imported
get_plan(plan_name) ==
    /\ startup.pending = << >>
    /\ last' = [op |-> "get_plan", id |-> NoSuchId, state |-> plan_name,
                success |-> get_plan_response(plan_name).success, error |-> "",
                response |-> get_plan_response(plan_name)]
    /\ UNCHANGED <<scans, clock, nextId, scanQueue, stateQueue, running, inflight,
                   stopObserved, requests, edits, startup, db>>

\* the request GET /plugins and its response
get_plugins ==
    /\ startup.pending = << >>
    /\ last' = [op |-> "get_plugins", id |-> NoSuchId, state |-> "", success |-> TRUE,
                error |-> "",
                response |-> [success |-> TRUE,
                              plugins |-> { startup.plugins[n].descriptor :
                                              n \in DOMAIN startup.plugins }]]
    /\ UNCHANGED <<scans, clock, nextId, scanQueue, stateQueue, running, inflight,
                   stopObserved, requests, edits, startup, db>>

----------------------------------------------------------------------------
(* Edits of the plan catalog and changes of the plugin registry *)

\* the plan stored under plan_name is replaced by an edited one
plan_edit(plan_name) ==
    /\ plan_name \in (DOMAIN plans) \ edits.plans
    /\ edits' = [edits EXCEPT !.plans = @ \cup {plan_name}]
    /\ last' = Event("plan_edit", NoSuchId, plan_name, TRUE, "")
    /\ UNCHANGED <<scans, clock, nextId, scanQueue, stateQueue, running, inflight,
                   stopObserved, requests, startup, db>>

\* the registry is rebuilt with an upgraded plugin
registry_change(plugin_name) ==
    /\ plugin_name \in (DOMAIN plugins) \ edits.plugins
    /\ edits' = [edits EXCEPT !.plugins = @ \cup {plugin_name}]
    /\ last' = Event("registry_change", NoSuchId, plugin_name, TRUE, "")
    /\ UNCHANGED <<scans, clock, nextId, scanQueue, stateQueue, running, inflight,
                   stopObserved, requests, startup, db>>

----------------------------------------------------------------------------
(* GET /scans/<scan_id> *)

\* sanitize_session that fills in the plugin's details from the registry on
\* every read, the way get_plan does for the steps of a plan
sanitize_session_live(session) ==
    [session EXCEPT !.created = timegm(@), !.queued = timegm(@),
                    !.started = timegm(@), !.finished = timegm(@),
                    !.plugin = registry_descriptor(@.class)]

sanitize_session(session) ==
    [session EXCEPT !.created = timegm(@), !.queued = timegm(@),
                    !.started = timegm(@), !.finished = timegm(@)]

sanitize_scan(scan) ==
    [scan EXCEPT !.created = timegm(@), !.queued = timegm(@),
                 !.started = timegm(@), !.finished = timegm(@),
                 !.sessions = [i \in 1..Len(scan.sessions) |-> sanitize_session(scan.sessions[i])]]

\* get_scan that leaves the sessions out of the scan it returns
get_scan_without_sessions(scan_id) ==
    IF find_one(scan_id) = 0
    THEN [success |-> FALSE]
    ELSE [success |-> TRUE, scan |-> [sanitize_scan(Scan(scan_id)) EXCEPT !.sessions = << >>]]

\* the response of GET /scans/<scan_id>
get_scan(scan_id) ==
    IF find_one(scan_id) = 0
    THEN [success |-> FALSE]
    ELSE [success |-> TRUE, scan |-> sanitize_scan(Scan(scan_id))]

----------------------------------------------------------------------------
(* GET /scans/<scan_id>/summary *)

RECURSIVE count_in_issues(_, _)
\* the inner loop of _count_issues: the issues of one session
count_in_issues(issues, severity) ==
    IF issues = << >> THEN 0
    ELSE (IF Head(issues).Severity = severity THEN 1 ELSE 0)
         + count_in_issues(Tail(issues), severity)

RECURSIVE count_in_sessions(_, _)
\* the outer loop of _count_issues: the sessions of the scan
count_in_sessions(sessions, severity) ==
    IF sessions = << >> THEN 0
    ELSE count_in_issues(Head(sessions).issues, severity)
         + count_in_sessions(Tail(sessions), severity)

\* _count_issues that looks at the first session only
count_issues_first_session(scan, severity) ==
    IF scan.sessions = << >> THEN 0 ELSE count_in_issues(scan.sessions[1].issues, severity)

\* _count_issues(scan, severity)
count_issues(scan, severity) == count_in_sessions(scan.sessions, severity)

summarize_scan(scan) ==
    [id |-> scan.id,
     state |-> scan.state,
     configuration |-> scan.configuration,
     plan |-> scan.plan,
     sessions |-> [n \in 1..Len(scan.sessions) |->
                     [plugin |-> scan.sessions[n].plugin,
                      id |-> scan.sessions[n].id,
                      state |-> scan.sessions[n].state]],
     created |-> scan.created,
     queued |-> scan.queued,
     finished |-> scan.finished,
     issues |-> [high |-> count_issues(scan, "High"),
                 low |-> count_issues(scan, "Low"),
                 medium |-> count_issues(scan, "Medium"),
                 info |-> count_issues(scan, "Info")]]

\* the request GET /scans/<scan_id>/summary and its response
get_scan_summary(scan_id) ==
    /\ IF find_one(scan_id) = 0
       THEN last' = Event("summary", scan_id, "", FALSE, "")
       ELSE last' = [op |-> "summary", id |-> scan_id, state |-> "", success |-> TRUE,
                     error |-> "", summary |-> summarize_scan(sanitize_scan(Scan(scan_id)))]
    /\ UNCHANGED <<scans, clock, nextId, scanQueue, stateQueue, running, inflight,
                   stopObserved, requests, edits, startup, db>>

----------------------------------------------------------------------------
(* Requests as clients send them: JSON bodies and query arguments *)

\* POST /scans with the JSON body of the request: the handler reads
\* json['plan'] and json['configuration']
put_scan_create_request(json) == put_scan_create(json.plan, json.configuration)

\* the response of POST /scans, from the state in which the request arrives
put_scan_create_response(json) ==
    IF plans_find_one(json.plan) = NoPlan
    THEN [success |-> FALSE]
    ELSE [success |-> TRUE,
          scan |-> sanitize_scan(new_scan(nextId, plans_find_one(json.plan),
                                          json.configuration, clock))]

\* GET /scans/<scan_id>?email=<email>: the request and its response
get_scan_request(scan_id, email) ==
    /\ last' = [op |-> "get", id |-> scan_id, state |-> "", success |-> get_scan(scan_id).success,
                error |-> "", email |-> email, response |-> get_scan(scan_id)]
    /\ UNCHANGED <<scans, clock, nextId, scanQueue, stateQueue, running, inflight,
                   stopObserved, requests, edits, startup, db>>

----------------------------------------------------------------------------
(* GET /reports/history *)

\* the number of scans a history report holds at most: .limit(100)
HistoryLimit == 100

\* scans.find({}) and scans.find({'configuration.target': {'$in': sites}}):
\* the places of the matching scans in the collection
scans_find_all == 1..Len(scans)

scans_find_target_in(sites) ==
    { i \in 1..Len(scans) : scans[i].configuration.target \in sites }

\* .sort("created", 1): oldest first
sort_created_ascending(found) ==
    LET before == [i \in found |->
                     Cardinality({ j \in found :
                         \/ scans[j].created < scans[i].created
                         \/ (scans[j].created = scans[i].created /\ j < i) })]
    IN [k \in 1..Cardinality(found) |-> CHOOSE i \in found : before[i] = k - 1]

\* .sort("created", -1): newest first; scans created at the same time stay
\* in the order of the collection
sort_created_descending(found) ==
    LET before == [i \in found |->
                     Cardinality({ j \in found :
                         \/ scans[j].created > scans[i].created
                         \/ (scans[j].created = scans[i].created /\ j < i) })]
    IN [k \in 1..Cardinality(found) |-> CHOOSE i \in found : before[i] = k - 1]

\* a cursor without .limit(n)
limit_none(cursor, n) == cursor

\* .limit(n)
limit(cursor, n) == IF Len(cursor) <= n THEN cursor ELSE SubSeq(cursor, 1, n)

\* the response of GET /reports/history?user=<user_email>
get_reports_history_response(user_email) ==
    IF user_email # NoEmail
    THEN IF user_email \notin users
         THEN [success |-> FALSE, reason |-> "no-such-user"]
         ELSE LET cursor == limit(sort_created_descending(
                                     scans_find_target_in(find_sites_for_user(user_email))),
                                  HistoryLimit)
              IN [success |-> TRUE,
                  report |-> [k \in 1..Len(cursor) |->
                                summarize_scan(sanitize_scan(scans[cursor[k]]))]]
    ELSE LET cursor == limit(sort_created_descending(scans_find_all), HistoryLimit)
         IN [success |-> TRUE,
             report |-> [k \in 1..Len(cursor) |->
                           summarize_scan(sanitize_scan(scans[cursor[k]]))]]

\* the request GET /reports/history and its response
get_reports_history(user_email) ==
    /\ last' = [op |-> "history", id |-> NoSuchId, state |-> "",
                success |-> get_reports_history_response(user_email).success,
                error |-> "", email |-> user_email,
                response |-> get_reports_history_response(user_email)]
    /\ UNCHANGED <<scans, clock, nextId, scanQueue, stateQueue, running, inflight,
                   stopObserved, requests, edits, startup, db>>

----------------------------------------------------------------------------
(* PUT /scans/<scan_id>/control *)

\* is_known_state accepting every command
is_known_state_unchecked(state) == TRUE

\* the commands put_scan_control knows
is_known_state(state) == state \in {"START", "STOP"}

\* start_is_valid accepting every scan state
start_is_valid_unchecked(scan) == TRUE

\* START is a valid transition from CREATED only
start_is_valid(scan) == scan.state = "CREATED"

\* start_update that forgets the queued timestamp
start_update_no_stamp(scan, now) == [scan EXCEPT !.state = "QUEUED"]

\* scans.update({"id": scan_id}, {"$set": {"state": "QUEUED", "queued": now}})
start_update(scan, now) == [scan EXCEPT !.state = "QUEUED", !.queued = now]

\* stop_update that stamps the scan but leaves its state
stop_update_keeps_state(scan, now) == [scan EXCEPT !.queued = now]

\* scans.update({"id": scan_id}, {"$set": {"state": "STOPPING", "queued": now}})
stop_update(scan, now) == [scan EXCEPT !.state = "STOPPING", !.queued = now]

\* apply_async that loses the message
apply_async_lost(queue, scan_id) == queue

\* task.apply_async([scan['id']], queue=...): the id joins the queue
apply_async(queue, scan_id) == Append(queue, scan_id)

put_scan_control(scan_id, state) ==
    /\ IF find_one(scan_id) = 0
       THEN /\ last' = Event("control", scan_id, state, FALSE, "no-such-scan")
            /\ UNCHANGED <<scans, clock, scanQueue, stateQueue>>
       ELSE IF ~is_known_state(state)
       THEN /\ last' = Event("control", scan_id, state, FALSE, "unknown-state")
            /\ UNCHANGED <<scans, clock, scanQueue, stateQueue>>
       ELSE IF state = "START" /\ ~start_is_valid(Scan(scan_id))
       THEN /\ last' = Event("control", scan_id, state, FALSE, "invalid-state-transition")
            /\ UNCHANGED <<scans, clock, scanQueue, stateQueue>>
       ELSE IF state = "START"
       THEN LET now == clock IN
            /\ scans' = [scans EXCEPT ![find_one(scan_id)] = start_update(@, now)]
            /\ clock' = Later(now)
            /\ scanQueue' = apply_async(scanQueue, scan_id)
            /\ last' = Event("control", scan_id, state, TRUE, "")
            /\ UNCHANGED stateQueue
       ELSE IF state = "STOP"
       THEN LET now == clock IN
            /\ Len(stateQueue) < MaxQueue
            /\ scans' = [scans EXCEPT ![find_one(scan_id)] = stop_update(@, now)]
            /\ clock' = Later(now)
            /\ stateQueue' = apply_async(stateQueue, scan_id)
            /\ last' = Event("control", scan_id, state, TRUE, "")
            /\ UNCHANGED scanQueue
       ELSE /\ last' = Event("control", scan_id, state, TRUE, "")
            /\ UNCHANGED <<scans, clock, scanQueue, stateQueue>>
    /\ UNCHANGED <<nextId, running, inflight, stopObserved, requests, edits, startup, db>>

\* the infrastructure errors of the handler: the queue does not take the
\* message (apply_async raises), the collection does not take the update
\* (scans.update raises)
InfrastructureErrors == {"queue-unavailable", "write-failed"}

\* PUT /scans/<scan_id>/control when the update or the hand-over raises: the
\* exception leaves the handler, the statements after it are not reached
put_scan_control_raises(scan_id, state, failure) ==
    /\ find_one(scan_id) # 0
    /\ is_known_state(state)
    /\ state = "START" => start_is_valid(Scan(scan_id))
    /\ LET now == clock IN
       /\ clock' = Later(now)
       /\ IF failure = "write-failed"
          THEN UNCHANGED scans
          ELSE scans' = [scans EXCEPT ![find_one(scan_id)] =
                            IF state = "START" THEN start_update(@, now) ELSE stop_update(@, now)]
    /\ last' = Event("control", scan_id, state, FALSE, failure)
    /\ UNCHANGED <<nextId, scanQueue, stateQueue, running, inflight, stopObserved,
                   requests, edits, startup, db>>

\* put_scan_control when requests are handled at the same time, first half:
\* the handler reads the scan (scans.find_one); an id that matches no scan is
\* answered at once
put_scan_control_find(scan_id, state) ==
    /\ IF find_one(scan_id) = 0
       THEN /\ last' = Event("control", scan_id, state, FALSE, "no-such-scan")
            /\ UNCHANGED requests
       ELSE /\ Len(requests) < MaxRequests
            /\ requests' = Append(requests, [id |-> scan_id, state |-> state, scan |-> Scan(scan_id)])
            /\ last' = Event("control_find", scan_id, state, TRUE, "")
    /\ UNCHANGED <<scans, clock, nextId, scanQueue, stateQueue, running, inflight, stopObserved, edits, startup, db>>

\* second half: the checks on the scan as it was read, then the update of the
\* stored scan and the message to the worker
put_scan_control_update(k) ==
    /\ k \in 1..Len(requests)
    /\ LET scan_id == requests[k].id
           state == requests[k].state
           scan == requests[k].scan
       IN IF ~is_known_state(state)
          THEN /\ last' = Event("control", scan_id, state, FALSE, "unknown-state")
               /\ UNCHANGED <<scans, clock, scanQueue, stateQueue>>
          ELSE IF state = "START" /\ ~start_is_valid(scan)
          THEN /\ last' = Event("control", scan_id, state, FALSE, "invalid-state-transition")
               /\ UNCHANGED <<scans, clock, scanQueue, stateQueue>>
          ELSE IF state = "START"
          THEN LET now == clock IN
               /\ scans' = [scans EXCEPT ![find_one(scan_id)] = start_update(@, now)]
               /\ clock' = Later(now)
               /\ scanQueue' = apply_async(scanQueue, scan_id)
               /\ last' = Event("control", scan_id, state, TRUE, "")
               /\ UNCHANGED stateQueue
          ELSE LET now == clock IN
               /\ Len(stateQueue) < MaxQueue
               /\ scans' = [scans EXCEPT ![find_one(scan_id)] = stop_update(@, now)]
               /\ clock' = Later(now)
               /\ stateQueue' = apply_async(stateQueue, scan_id)
               /\ last' = Event("control", scan_id, state, TRUE, "")
               /\ UNCHANGED scanQueue
    /\ requests' = RemoveAt(requests, k)
    /\ UNCHANGED <<nextId, running, inflight, stopObserved, edits, startup, db>>

----------------------------------------------------------------------------
(* Plugins (minion/plugins/basic.py) *)

\* the X-Frame-Options values a target may send ("" stands for no header)
AllowFromGood == "Allow-From http://example.org/"
AllowFromQuery == "ALLOW-FROM HTTP://EXAMPLE.ORG/?Q=1"
XfoValues == {"", "SAMEORIGIN", "sameorigin", "bogus", AllowFromGood, AllowFromQuery}

\* what minion.curly.get() meets at the target: the connection fails
\* (CurlyError), the status is not a success (raise_for_status raises
\* BadResponseError), or the response arrives with or without the header
Responses ==
    { [status |-> "unreachable", xfo |-> ""], [status |-> "bad", xfo |-> ""] }
    \cup { [status |-> "ok", xfo |-> v] : v \in XfoValues }

\* the targets of the plan headers-first: one that cannot be reached, one
\* that answers with an error status, one that sends the header
HeadersFirstResponses ==
    { [status |-> "unreachable", xfo |-> ""], [status |-> "bad", xfo |-> ""],
      [status |-> "ok", xfo |-> "SAMEORIGIN"] }

Issue(code, summary, severity) == [Code |-> code, Summary |-> summary, Severity |-> severity]

\* AlivePlugin.REPORTS
AliveGood == Issue("ALIVE-0", "Site is reachable", "Info")
AliveBad == Issue("ALIVE-1", "Site could not be reached", "Fatal")

\* the issue a CurlyError carries (error.issue)
CurlyErrorIssue == Issue("CURLY", "Curl error", "Fatal")

\* XFrameOptionsPlugin.REPORTS
XfoSet == Issue("XFO-0", "X-Frame-Options header is set properly", "Info")
XfoInvalid == Issue("XFO-1", "Invalid X-Frame-Options header detected", "High")
XfoNotSet == Issue("XFO-2", "X-Frame-Options header is not set", "High")

\* the issue attached to a session whose plugin raised or timed out
SyntheticIssue == Issue("ERROR", "Plugin execution error", "Error")

\* result of a plugin run: the issues reported and how the run ended:
\* "EXIT" (do_run returned None), "ABORTED" (EXIT_STATE_ABORTED) or "RAISED"
PluginResult(issues, exit) == [issues |-> issues, exit |-> exit]

\* AlivePlugin.do_run that reports nothing when the site answers
AlivePlugin_do_run_silent(r) ==
    IF r.status = "unreachable" THEN PluginResult(<<CurlyErrorIssue>>, "ABORTED")
    ELSE IF r.status = "bad" THEN PluginResult(<<AliveBad>>, "ABORTED")
    ELSE PluginResult(<< >>, "EXIT")

\* AlivePlugin.do_run that reports the bad response and goes on
AlivePlugin_do_run_continues(r) ==
    IF r.status = "unreachable" THEN PluginResult(<<CurlyErrorIssue>>, "ABORTED")
    ELSE IF r.status = "bad" THEN PluginResult(<<AliveBad>>, "EXIT")
    ELSE PluginResult(<<AliveGood>>, "EXIT")

AlivePlugin_do_run(r) ==
    IF r.status = "unreachable" THEN PluginResult(<<CurlyErrorIssue>>, "ABORTED")
    ELSE IF r.status = "bad" THEN PluginResult(<<AliveBad>>, "ABORTED")
    ELSE PluginResult(<<AliveGood>>, "EXIT")

\* str.upper() on the values of XfoValues
Upper(v) ==
    CASE v = "sameorigin" -> "SAMEORIGIN"
      [] v = "bogus" -> "BOGUS"
      [] v = AllowFromGood -> "ALLOW-FROM HTTP://EXAMPLE.ORG/"
      [] OTHER -> v

\* 'ALLOW-FROM' in value, for an upper-cased value of XfoValues
contains_allow_from(value) ==
    value \in {"ALLOW-FROM HTTP://EXAMPLE.ORG/", AllowFromQuery}

\* _allow_from_validator on the values of XfoValues that hold ALLOW-FROM:
\* the url after ALLOW-FROM must have scheme http or https and neither a
\* query nor a fragment
allow_from_validator(value) ==
    LET upper == Upper(value)
        hasQuery == upper = AllowFromQuery
    IN /\ contains_allow_from(upper)
       /\ ~hasQuery

\* XFrameOptionsPlugin.do_run that catches the error of curly.get and aborts,
\* the way AlivePlugin.do_run does
XFrameOptionsPlugin_do_run_catches(r) ==
    IF r.status # "ok" THEN PluginResult(<<CurlyErrorIssue>>, "ABORTED")
    ELSE IF r.xfo = "" THEN PluginResult(<<XfoNotSet>>, "EXIT")
    ELSE PluginResult(<<XfoSet>>, "EXIT")

XFrameOptionsPlugin_do_run(r) ==
    IF r.status # "ok" THEN PluginResult(<< >>, "RAISED")
    ELSE IF r.xfo # ""
         THEN IF Upper(r.xfo) \in {"DENY", "SAMEORIGIN"}
              THEN PluginResult(<<XfoSet>>, "EXIT")
              ELSE IF contains_allow_from(Upper(r.xfo))
              THEN IF allow_from_validator(r.xfo)
                   THEN PluginResult(<<XfoSet>>, "EXIT")
                   ELSE PluginResult(<<XfoInvalid>>, "EXIT")
              ELSE PluginResult(<<XfoInvalid>>, "EXIT")
         ELSE PluginResult(<<XfoNotSet>>, "EXIT")

do_run(class, r) ==
    IF class = AlivePluginName THEN AlivePlugin_do_run(r) ELSE XFrameOptionsPlugin_do_run(r)

----------------------------------------------------------------------------
(* CSPPlugin (minion/plugins/basic.py) *)

\* the names of the four headers as the keys of r.headers
CSP == "content-security-policy"
CSP_RO == "content-security-policy-report-only"
XCSP == "x-content-security-policy"
XCSP_RO == "x-content-security-policy-report-only"

CSPHeaderNames == {CSP, CSP_RO, XCSP, XCSP_RO}

\* CSPPlugin.REPORTS
CSPPlugin_REPORTS(issue_key) ==
    CASE issue_key = "csp-set" ->
            Issue("CSP-1", "Content-Security-Policy header is set", "Info")
      [] issue_key = "csp-not-set" ->
            Issue("CSP-2", "Content-Security-Policy header is not set", "High")
      [] issue_key = "csp-ro-only-set" ->
            Issue("CSP-3", "Content-Security-Policy-Report-Only header is set but CSP is missing", "High")
      [] issue_key = "xcsp-set" ->
            Issue("CSP-4", "X-Content-Security-Policy header is set", "Info")
      [] issue_key = "xcsp-not-set" ->
            Issue("CSP-5", "X-Content-Security-Policy header is not set", "High")
      [] issue_key = "xcsp-ro-only-set" ->
            Issue("CSP-6", "X-Content-Security-Policy-Report-Only header is set but X-CSP is missing", "High")
      [] issue_key = "csp-csp-ro-set" ->
            Issue("CSP-7", "Both Content-Security-Policy and Report-Only headers are set", "Info")
      [] issue_key = "xcsp-xcsp-ro-set" ->
            Issue("CSP-8", "Both X-Content-Security-Policy and Report-Only headers are set", "Info")
      [] issue_key = "unknown-directive" ->
            Issue("CSP-9", "Found {count} unrecongized CSP directives", "High")
      [] issue_key = "deprecated-directive" ->
            Issue("CSP-10", "Found {count} deprecated CSP directives", "High")
      [] issue_key = "bad-none" ->
            Issue("CSP-11", "When 'none' is specify, no other source expressions can be specified", "High")
      [] issue_key = "inline" ->
            Issue("CSP-12", "unsafe-inline is enabled", "High")
      [] issue_key = "eval" ->
            Issue("CSP-13", "unsafe-eval is enabled", "High")

DIRECTIVES ==
    {"default-src", "script-src", "style-src", "object-src", "img-src",
     "media-src", "frame-src", "font-src", "connect-src", "report-uri"}

DEPRECATED_DIRECTIVES == {"allow", "xhr-src"}

\* the elements of a sequence
Range(q) == { q[i] : i \in 1..Len(q) }

\* _check_headers that reports csp-ro-only-set whenever the report-only
\* header is there
CSPPlugin_check_headers_ro_always(headers) ==
    LET csp == CSP \in headers
        csp_ro == CSP_RO \in headers
        xcsp == XCSP \in headers
        xcsp_ro == XCSP_RO \in headers
    IN (IF csp THEN <<CSPPlugin_REPORTS("csp-set")>> ELSE <<CSPPlugin_REPORTS("csp-not-set")>>)
       \o (IF csp /\ csp_ro THEN <<CSPPlugin_REPORTS("csp-csp-ro-set")>> ELSE << >>)
       \o (IF csp_ro THEN <<CSPPlugin_REPORTS("csp-ro-only-set")>> ELSE << >>)
       \o (IF xcsp THEN <<CSPPlugin_REPORTS("xcsp-set")>> ELSE <<CSPPlugin_REPORTS("xcsp-not-set")>>)
       \o (IF xcsp /\ xcsp_ro THEN <<CSPPlugin_REPORTS("xcsp-xcsp-ro-set")>>
           ELSE IF xcsp_ro /\ ~xcsp THEN <<CSPPlugin_REPORTS("xcsp-ro-only-set")>>
           ELSE << >>)

\* CSPPlugin._check_headers(headers): the issues it reports, in order;
\* headers is the set of the header names of the response
CSPPlugin_check_headers(headers) ==
    LET csp == CSP \in headers
        csp_ro == CSP_RO \in headers
        xcsp == XCSP \in headers
        xcsp_ro == XCSP_RO \in headers
    IN (IF csp THEN <<CSPPlugin_REPORTS("csp-set")>> ELSE <<CSPPlugin_REPORTS("csp-not-set")>>)
       \o (IF csp /\ csp_ro THEN <<CSPPlugin_REPORTS("csp-csp-ro-set")>>
           ELSE IF csp_ro /\ ~csp THEN <<CSPPlugin_REPORTS("csp-ro-only-set")>>
           ELSE << >>)
       \o (IF xcsp THEN <<CSPPlugin_REPORTS("xcsp-set")>> ELSE <<CSPPlugin_REPORTS("xcsp-not-set")>>)
       \o (IF xcsp /\ xcsp_ro THEN <<CSPPlugin_REPORTS("xcsp-xcsp-ro-set")>>
           ELSE IF xcsp_ro /\ ~xcsp THEN <<CSPPlugin_REPORTS("xcsp-ro-only-set")>>
           ELSE << >>)

\* CSPPlugin._split_policy(csp): the value of the header is a sequence of
\* directive groups (the text between two ';'), each a sequence of words;
\* empty groups are dropped, the first word of a group is the directive and
\* the others are its source list
CSPPlugin_split_policy(csp) ==
    LET groups_kept == SelectSeq(csp, LAMBDA d : d # << >>)
    IN [i \in 1..Len(groups_kept) |->
          [directive |-> Head(groups_kept[i]), source_list |-> Tail(groups_kept[i])]]

\* CSPPlugin._check_directives()
CSPPlugin_check_directives(policies) ==
    LET depr_dirs == SelectSeq(policies, LAMBDA policy : policy.directive \in DEPRECATED_DIRECTIVES)
        unknown_dirs == SelectSeq(policies, LAMBDA policy :
                                     /\ policy.directive \notin DEPRECATED_DIRECTIVES
                                     /\ policy.directive \notin DIRECTIVES)
    IN (IF unknown_dirs # << >> THEN <<CSPPlugin_REPORTS("unknown-directive")>> ELSE << >>)
       \o (IF depr_dirs # << >> THEN <<CSPPlugin_REPORTS("deprecated-directive")>> ELSE << >>)

\* CSPPlugin._check_source_lists()
CSPPlugin_check_source_lists(policies) ==
    LET is_bad_none(policy) ==
            "'none'" \in Range(policy.source_list) /\ Len(policy.source_list) > 1
        bad_none == SelectSeq(policies, is_bad_none)
        inline == SelectSeq(policies, LAMBDA policy :
                              /\ ~is_bad_none(policy)
                              /\ policy.directive \in {"style-src", "script-src"}
                              /\ "'unsafe-inline'" \in Range(policy.source_list))
        eval == SelectSeq(policies, LAMBDA policy :
                            /\ ~is_bad_none(policy)
                            /\ policy.directive \in {"style-src", "script-src"}
                            /\ "'unsafe-eval'" \in Range(policy.source_list))
    IN (IF bad_none # << >> THEN <<CSPPlugin_REPORTS("bad-none")>> ELSE << >>)
       \o (IF inline # << >> THEN <<CSPPlugin_REPORTS("inline")>> ELSE << >>)
       \o (IF eval # << >> THEN <<CSPPlugin_REPORTS("eval")>> ELSE << >>)

\* CSPPlugin.do_run(): r is what minion.curly.get() meets at the target;
\* r.headers maps the names of the headers of the response to their values
CSPPlugin_do_run(r) ==
    IF r.status # "ok" THEN PluginResult(<< >>, "RAISED")
    ELSE LET header_issues == CSPPlugin_check_headers(DOMAIN r.headers)
         IN IF CSP \in DOMAIN r.headers
            THEN LET policies == CSPPlugin_split_policy(r.headers[CSP])
                 IN PluginResult(header_issues
                                   \o CSPPlugin_check_directives(policies)
                                   \o CSPPlugin_check_source_lists(policies),
                                 "EXIT")
            ELSE PluginResult(header_issues, "EXIT")

\* a run of the plugin against a target, outside a scan, the way the
\* functional tests of the plugin run it
CSPPlugin_run(r) ==
    /\ last' = [op |-> "csp", id |-> NoSuchId, state |-> CSPPlugin_do_run(r).exit,
                success |-> TRUE, error |-> "", response |-> r,
                issues |-> CSPPlugin_do_run(r).issues]
    /\ UNCHANGED <<scans, clock, nextId, scanQueue, stateQueue, running, inflight,
                   stopObserved, requests, edits, startup, db>>

----------------------------------------------------------------------------
(* Invitations (minion/backend/views/invites.py) *)

\* the e-mail addresses of the people of the functional tests: the sender,
\* two invited recipients, a user who has an account, and an address that
\* nobody has registered
SenderEmail == "bob@example.org"
AliceEmail == "alice@example.org"
BettyEmail == "betty@example.org"
ExistingEmail == "existing@example.org"
PersonaEmail == "persona@example.org"

\* what find_one returns when no document matches (Python's None)
NoUser == [id |-> 0, email |-> "", name |-> "", status |-> ""]

NoInvite ==
    [id |-> NoSuchId, recipient |-> "", recipient_name |-> "", sender |-> "", sender_name |-> "",
     sent_on |-> None, accepted_on |-> None, status |-> "", expire_on |-> None,
     max_time_allowed |-> None, notify_when |-> {}]

\* backend_config['email']['max_time_allowed'], in seconds
backend_config_max_time_allowed == 604800

\* users.find_one({'email': email})
users_find_one(email) ==
    IF \E user \in db.users : user.email = email
    THEN CHOOSE user \in db.users : user.email = email
    ELSE NoUser

\* invites.find_one(query): the first invitation that matches
invites_first(matches(_)) ==
    IF \E i \in 1..Len(db.invites) : matches(db.invites[i])
    THEN db.invites[CHOOSE i \in 1..Len(db.invites) :
                       /\ matches(db.invites[i])
                       /\ \A j \in 1..(i - 1) : ~matches(db.invites[j])]
    ELSE NoInvite

\* invites.find_one({'id': id})
invites_find_one_id(id) == invites_first(LAMBDA invite : invite.id = id)

\* invites.find_one({'recipient': recipient})
invites_find_one_recipient(recipient) == invites_first(LAMBDA invite : invite.recipient = recipient)

\* invites.save(invitation): the document with the _id of the invitation is
\* replaced, and inserted when the collection does not hold it
invites_save(coll, invitation) ==
    IF \E i \in 1..Len(coll) : coll[i].id = invitation.id
    THEN [i \in 1..Len(coll) |-> IF coll[i].id = invitation.id THEN invitation ELSE coll[i]]
    ELSE Append(coll, invitation)

\* invites.remove({'id': id})
invites_remove(coll, id) == SelectSeq(coll, LAMBDA invite : invite.id # id)

\* remove_group_association(email) of views/users.py: the e-mail is pulled
\* from the users of every group
remove_group_association(coll, email) ==
    [g \in DOMAIN coll |-> SelectSeq(coll[g], LAMBDA u : u # email)]

\* update_group_association(old_email, new_email) of views/users.py: in
\* every group that lists the old e-mail, the new one takes its place
update_group_association(coll, old_email, new_email) ==
    [g \in DOMAIN coll |->
        [i \in 1..Len(coll[g]) |-> IF coll[g][i] = old_email THEN new_email ELSE coll[g][i]]]

\* datetime.timedelta(seconds=n), in ticks
timedelta(seconds) == seconds * TicksPerSecond

\* the attribute seconds of the difference of two datetimes: a timedelta is
\* kept as days, seconds and microseconds with 0 <= seconds < 86400
timedelta_seconds(ticks) == (ticks \div TicksPerSecond) % 86400

\* backend_utils.email(action_type, data): the mail server accepts the
\* message or smtplib raises
SMTPExceptions == {"SMTPSenderRefused", "SMTPRecipientsRefused", "SMTPException"}

SMTPOutcomes == {"sent"} \cup SMTPExceptions

\* send_email(action_type, data): what it returns, None after a message
\* that was sent and a response after an SMTP error
send_email(action_type, data, smtp) ==
    CASE smtp = "sent" -> [success |-> TRUE, reason |-> ""]
      [] smtp = "SMTPSenderRefused" ->
            [success |-> FALSE, reason |-> "Sender email requires authentication."]
      [] smtp = "SMTPRecipientsRefused" ->
            [success |-> FALSE, reason |-> "Recipient refused to receive email."]
      [] smtp = "SMTPException" ->
            [success |-> FALSE, reason |-> "Unable to send email."]

\* the messages the mail server has accepted after send_email
sent_mail(outbox, action_type, data, smtp) ==
    IF smtp = "sent"
    THEN outbox \cup {[action_type |-> action_type, id |-> data.id,
                       to |-> IF action_type = "invite" THEN data.recipient ELSE data.sender]}
    ELSE outbox

\* sanitize_invite(invite)
sanitize_invite(invite) ==
    [invite EXCEPT !.sent_on = timegm(@), !.accepted_on = timegm(@), !.expire_on = timegm(@)]

\* load_user_and_invite that does not look at accepted_on
load_user_and_invite_reusable(invite_id) ==
    LET invitation == invites_find_one_id(invite_id)
        user == users_find_one(invitation.recipient)
    IN IF invitation = NoInvite
       THEN [error |-> "Invitation not found.", invitation |-> NoInvite, user |-> NoUser]
       ELSE IF user = NoUser
       THEN [error |-> "User not found.", invitation |-> invitation, user |-> NoUser]
       ELSE [error |-> "", invitation |-> invitation, user |-> user]

\* load_user_and_invite(invite_id): the invitation and its user, or the
\* message of the exception it raises
load_user_and_invite(invite_id) ==
    LET invitation == invites_find_one_id(invite_id)
        user == users_find_one(invitation.recipient)
    IN IF invitation = NoInvite
       THEN [error |-> "Invitation not found.", invitation |-> NoInvite, user |-> NoUser]
       ELSE IF user = NoUser
       THEN [error |-> "User not found.", invitation |-> invitation, user |-> NoUser]
       ELSE IF invitation.accepted_on # None
       THEN [error |-> "Used invitation is not reusable.", invitation |-> invitation, user |-> user]
       ELSE [error |-> "", invitation |-> invitation, user |-> user]

\* invite_has_expired(invitation); utcnow is the time of the call
invite_has_expired(invitation, utcnow) ==
    timedelta_seconds(invitation.expire_on - utcnow) < 0

\* the response of a handler and the request it answers
InviteEvent(op, id, json, response) ==
    [op |-> op, id |-> id, state |-> "", success |-> response.success, error |-> response.reason,
     json |-> json, response |-> response]

\* create_invites, lines 134-145: the reason for which the request is
\* refused, "" when it is not
create_invites_refusal(recipient_user, recipient_invite, sender_user) ==
    IF recipient_user = NoUser THEN "recipient-not-found-in-user-record"
    ELSE IF recipient_user.status # "invited" THEN "recipient-already-joined"
    ELSE IF recipient_invite # NoInvite THEN "duplicate-invitation-not-allowed"
    ELSE IF sender_user = NoUser THEN "sender-not-found-in-user-record"
    ELSE ""

\* create_invites, lines 147-160: the invitation before it is sent
new_invite(invite_id, json, recipient_user, sender_user) ==
    [id |-> invite_id,
     recipient |-> json.recipient,
     recipient_name |-> IF recipient_user.name # "" THEN recipient_user.name ELSE json.recipient,
     sender |-> json.sender,
     sender_name |-> IF sender_user.name # "" THEN sender_user.name ELSE json.sender,
     sent_on |-> None,
     accepted_on |-> None,
     status |-> "pending",
     expire_on |-> None,
     max_time_allowed |-> IF json.max_time_allowed \notin {None, 0}
                          THEN json.max_time_allowed
                          ELSE backend_config_max_time_allowed,
     notify_when |-> json.notify_when]

\* create_invites from line 134 on, with the three documents that lines
\* 124-126 have read: the checks, the e-mail, the insert and the response;
\* what send_email returns is not looked at
create_invites_write(json, recipient_user, recipient_invite, sender_user, smtp) ==
    LET reason == create_invites_refusal(recipient_user, recipient_invite, sender_user)
        invite == new_invite(nextId, json, recipient_user, sender_user)
        now == clock
        sent == [invite EXCEPT !.sent_on = now,
                               !.expire_on = now + timedelta(invite.max_time_allowed)]
    IN IF reason # ""
       THEN /\ last' = InviteEvent("create_invites", NoSuchId, json,
                                   [success |-> FALSE, reason |-> reason])
            /\ UNCHANGED <<db, nextId, clock>>
       ELSE /\ db' = [db EXCEPT !.invites = Append(@, sent),
                                !.outbox = sent_mail(@, "invite", invite, smtp)]
            /\ nextId' = nextId + 1
            /\ clock' = Later(now)
            /\ last' = InviteEvent("create_invites", invite.id, json,
                                   [success |-> TRUE, reason |-> "", invite |-> sanitize_invite(sent)])

\* POST /invites, handled from the first line to the last without another
\* request in between
create_invites(json, smtp) ==
    /\ create_invites_write(json, users_find_one(json.recipient),
                            invites_find_one_recipient(json.recipient),
                            users_find_one(json.sender), smtp)
    /\ UNCHANGED <<scans, scanQueue, stateQueue, running, inflight, stopObserved,
                   requests, edits, startup>>

\* POST /invites when requests are handled at the same time, first half:
\* the handler reads the two users and the invitation of the recipient
create_invites_find(json) ==
    /\ Len(requests) < MaxRequests
    /\ requests' = Append(requests,
                          [json |-> json,
                           recipient_user |-> users_find_one(json.recipient),
                           recipient_invite |-> invites_find_one_recipient(json.recipient),
                           sender_user |-> users_find_one(json.sender)])
    /\ last' = InviteEvent("create_invites_find", NoSuchId, json, [success |-> TRUE, reason |-> ""])
    /\ UNCHANGED <<scans, clock, nextId, scanQueue, stateQueue, running, inflight, stopObserved,
                   edits, startup, db>>

\* second half: the checks on what was read, the e-mail and the insert
create_invites_insert(k, smtp) ==
    /\ k \in 1..Len(requests)
    /\ create_invites_write(requests[k].json, requests[k].recipient_user,
                            requests[k].recipient_invite, requests[k].sender_user, smtp)
    /\ requests' = RemoveAt(requests, k)
    /\ UNCHANGED <<scans, scanQueue, stateQueue, running, inflight, stopObserved, edits, startup>>

\* delete_invite that removes the user of the recipient whatever its status
delete_invite_any_status(id) ==
    LET invitation == invites_find_one_id(id)
        email == invitation.recipient
        user == users_find_one(email)
    IN /\ IF invitation = NoInvite
          THEN /\ last' = InviteEvent("delete_invite", id, EmptyDict,
                                      [success |-> FALSE, reason |-> "Invitation not found."])
               /\ UNCHANGED db
          ELSE /\ db' = [db EXCEPT !.users = @ \ {user},
                                   !.groups = remove_group_association(@, email),
                                   !.invites = invites_remove(@, id)]
               /\ last' = InviteEvent("delete_invite", id, EmptyDict,
                                      [success |-> TRUE, reason |-> ""])
       /\ UNCHANGED <<scans, clock, nextId, scanQueue, stateQueue, running, inflight, stopObserved,
                      requests, edits, startup>>

\* DELETE /invites/<id>
delete_invite(id) ==
    LET invitation == invites_find_one_id(id)
        email == invitation.recipient
        user == users_find_one(email)
    IN /\ IF invitation = NoInvite
          THEN /\ last' = InviteEvent("delete_invite", id, EmptyDict,
                                      [success |-> FALSE, reason |-> "Invitation not found."])
               /\ UNCHANGED db
          ELSE /\ db' = IF user # NoUser /\ user.status = "invited"
                        THEN [db EXCEPT !.users = @ \ {user},
                                        !.groups = remove_group_association(@, email),
                                        !.invites = invites_remove(@, id)]
                        ELSE [db EXCEPT !.invites = invites_remove(@, id)]
               /\ last' = InviteEvent("delete_invite", id, EmptyDict,
                                      [success |-> TRUE, reason |-> ""])
       /\ UNCHANGED <<scans, clock, nextId, scanQueue, stateQueue, running, inflight, stopObserved,
                      requests, edits, startup>>

\* decline_invitation that leaves the user and the groups alone
decline_invitation_keeps_user(invite_id, smtp) ==
    LET loaded == load_user_and_invite(invite_id)
        invitation == [loaded.invitation EXCEPT !.status = "declined"]
    IN /\ IF loaded.error # ""
          THEN /\ last' = InviteEvent("decline_invitation", invite_id, EmptyDict,
                                      [success |-> FALSE, reason |-> loaded.error])
               /\ UNCHANGED db
          ELSE /\ db' = [db EXCEPT !.invites = invites_save(@, invitation)]
               /\ last' = InviteEvent("decline_invitation", invite_id, EmptyDict,
                                      [success |-> TRUE, reason |-> "",
                                       invite |-> sanitize_invite(invitation)])
       /\ UNCHANGED <<scans, clock, nextId, scanQueue, stateQueue, running, inflight, stopObserved,
                      requests, edits, startup>>

\* POST /invites/<invite_id>/decline
decline_invitation(invite_id, smtp) ==
    LET loaded == load_user_and_invite(invite_id)
        invitation == [loaded.invitation EXCEPT !.status = "declined"]
    IN /\ IF loaded.error # ""
          THEN /\ last' = InviteEvent("decline_invitation", invite_id, EmptyDict,
                                      [success |-> FALSE, reason |-> loaded.error])
               /\ UNCHANGED db
          ELSE /\ db' = [db EXCEPT
                            !.groups = remove_group_association(@, invitation.recipient),
                            !.users = @ \ {loaded.user},
                            !.invites = invites_save(@, invitation),
                            !.outbox = IF "decline" \in invitation.notify_when
                                       THEN sent_mail(@, "decline", invitation, smtp)
                                       ELSE @]
               /\ last' = InviteEvent("decline_invitation", invite_id, EmptyDict,
                                      [success |-> TRUE, reason |-> "",
                                       invite |-> sanitize_invite(invitation)])
       /\ UNCHANGED <<scans, clock, nextId, scanQueue, stateQueue, running, inflight, stopObserved,
                      requests, edits, startup>>

\* POST /invites/<invite_id>/resend
resend_invitation(invite_id, smtp) ==
    LET timenow == clock
        loaded == load_user_and_invite(invite_id)
        max_time_allowed == loaded.invitation.max_time_allowed
        invitation == [loaded.invitation EXCEPT
                          !.sent_on = timenow,
                          !.expire_on = timenow + timedelta(max_time_allowed)]
    IN /\ clock' = Later(timenow)
       /\ IF loaded.error # ""
          THEN /\ last' = InviteEvent("resend_invitation", invite_id, EmptyDict,
                                      [success |-> FALSE, reason |-> loaded.error])
               /\ UNCHANGED db
          ELSE /\ db' = [db EXCEPT !.invites = invites_save(@, invitation),
                                   !.outbox = sent_mail(@, "invite", loaded.invitation, smtp)]
               /\ last' = InviteEvent("resend_invitation", invite_id, EmptyDict,
                                      [success |-> TRUE, reason |-> "",
                                       invite |-> sanitize_invite(invitation)])
       /\ UNCHANGED <<scans, nextId, scanQueue, stateQueue, running, inflight, stopObserved,
                      requests, edits, startup>>

\* accept_invite that accepts with the invited e-mail whatever the login is
accept_invite_ignores_login(invite_id, json, smtp) ==
    LET timenow == clock
        loaded == load_user_and_invite(invite_id)
        accepted == [loaded.invitation EXCEPT !.status = "accepted", !.accepted_on = timenow]
    IN /\ clock' = IF loaded.error # "" THEN Later(timenow) ELSE Later(Later(timenow))
       /\ IF loaded.error # ""
          THEN /\ last' = InviteEvent("accept_invite", invite_id, json,
                                      [success |-> FALSE, reason |-> loaded.error])
               /\ UNCHANGED db
          ELSE /\ db' = [db EXCEPT
                            !.users = (@ \ {loaded.user})
                                      \cup {[loaded.user EXCEPT !.status = "active"]},
                            !.invites = invites_save(@, accepted)]
               /\ last' = InviteEvent("accept_invite", invite_id, json,
                                      [success |-> TRUE, reason |-> "",
                                       invite |-> sanitize_invite(accepted)])
       /\ UNCHANGED <<scans, nextId, scanQueue, stateQueue, running, inflight, stopObserved,
                      requests, edits, startup>>

\* POST /invites/<invite_id>/accept with the body {'login': ...}
accept_invite(invite_id, json, smtp) ==
    LET timenow == clock
        loaded == load_user_and_invite(invite_id)
        user == loaded.user
        expired == [loaded.invitation EXCEPT !.status = "expired"]
        accepted == [loaded.invitation EXCEPT !.status = "accepted", !.accepted_on = timenow]
    IN /\ clock' = IF loaded.error # "" THEN Later(timenow) ELSE Later(Later(timenow))
       /\ IF loaded.error # ""
          THEN /\ last' = InviteEvent("accept_invite", invite_id, json,
                                      [success |-> FALSE, reason |-> loaded.error])
               /\ UNCHANGED db
          ELSE IF invite_has_expired(loaded.invitation, Later(timenow))
          THEN /\ db' = [db EXCEPT !.invites = invites_save(@, expired)]
               /\ last' = InviteEvent("accept_invite", invite_id, json,
                                      [success |-> TRUE, reason |-> "",
                                       invite |-> sanitize_invite(expired)])
          ELSE /\ db' = [db EXCEPT
                            !.groups = IF accepted.recipient = json.login THEN @
                                       ELSE update_group_association(@, accepted.recipient, json.login),
                            !.users = IF accepted.recipient = json.login
                                      THEN (@ \ {user}) \cup {[user EXCEPT !.status = "active"]}
                                      ELSE IF users_find_one(json.login) # NoUser
                                      THEN { u \in @ : u.email # accepted.recipient }
                                      ELSE (@ \ {user})
                                           \cup {[user EXCEPT !.email = json.login,
                                                              !.status = "active"]},
                            !.invites = invites_save(@, accepted),
                            !.outbox = IF "accept" \in accepted.notify_when
                                       THEN sent_mail(@, "accept", accepted, smtp)
                                       ELSE @]
               /\ last' = InviteEvent("accept_invite", invite_id, json,
                                      [success |-> TRUE, reason |-> "",
                                       invite |-> sanitize_invite(accepted)])
       /\ UNCHANGED <<scans, nextId, scanQueue, stateQueue, running, inflight, stopObserved,
                      requests, edits, startup>>

\* time passes between two requests
time_passes ==
    /\ clock < MaxClock
    /\ clock' = clock + 1
    /\ last' = Event("time_passes", NoSuchId, "", TRUE, "")
    /\ UNCHANGED <<scans, nextId, scanQueue, stateQueue, running, inflight, stopObserved,
                   requests, edits, startup, db>>

----------------------------------------------------------------------------
(* Execution scheduler: the workers behind the 'scan' and 'state' queues *)

\* NextSession that takes the last session that is not terminal
NextSession_last(scan) ==
    IF \E i \in 1..Len(scan.sessions) : scan.sessions[i].state \notin SessionTerminal
    THEN CHOOSE i \in 1..Len(scan.sessions) :
            /\ scan.sessions[i].state \notin SessionTerminal
            /\ \A j \in (i + 1)..Len(scan.sessions) : scan.sessions[j].state \in SessionTerminal
    ELSE 0

\* index of the first session that is not terminal, 0 when all are
NextSession(scan) ==
    IF \E i \in 1..Len(scan.sessions) : scan.sessions[i].state \notin SessionTerminal
    THEN CHOOSE i \in 1..Len(scan.sessions) :
            /\ scan.sessions[i].state \notin SessionTerminal
            /\ \A j \in 1..(i - 1) : scan.sessions[j].state \in SessionTerminal
    ELSE 0

\* a worker takes a start message: a QUEUED scan becomes STARTED and is
\* driven by this worker, a message for a scan in any other state is dropped
scan_worker_scan(k) ==
    /\ k \in 1..Len(scanQueue)
    /\ LET scan_id == scanQueue[k]
           idx == find_one(scan_id)
       IN /\ scanQueue' = RemoveAt(scanQueue, k)
          /\ last' = Event("scan_worker", scan_id, "", TRUE, "")
          /\ IF idx # 0 /\ scans[idx].state = "QUEUED"
             THEN LET now == clock IN
                  /\ scans' = [scans EXCEPT ![idx] = [@ EXCEPT !.state = "STARTED", !.started = now]]
                  /\ clock' = Later(now)
                  /\ running' = running \cup {scan_id}
             ELSE UNCHANGED <<scans, clock, running>>
    /\ UNCHANGED <<nextId, stateQueue, inflight, stopObserved, requests, edits, startup, db>>

\* the driving worker queues the next session in plan order
session_queue(scan_id) ==
    /\ scan_id \in running
    /\ scan_id \notin stopObserved
    /\ inflight[scan_id] = 0
    /\ LET idx == find_one(scan_id)
           i == NextSession(scans[idx])
       IN /\ i # 0
          /\ scans[idx].sessions[i].state = "CREATED"
          /\ LET now == clock IN
                /\ scans' = [scans EXCEPT ![idx].sessions[i] = [@ EXCEPT !.state = "QUEUED", !.queued = now]]
                /\ clock' = Later(now)
    /\ last' = Event("session_queue", scan_id, "", TRUE, "")
    /\ UNCHANGED <<nextId, scanQueue, stateQueue, running, inflight, stopObserved, requests, edits, startup, db>>

\* the driving worker starts the queued session: its plugin call is now active
session_start(scan_id) ==
    /\ scan_id \in running
    /\ scan_id \notin stopObserved
    /\ inflight[scan_id] = 0
    /\ LET idx == find_one(scan_id)
           i == NextSession(scans[idx])
       IN /\ i # 0
          /\ scans[idx].sessions[i].state = "QUEUED"
          /\ LET now == clock IN
                /\ scans' = [scans EXCEPT ![idx].sessions[i] = [@ EXCEPT !.state = "STARTED", !.started = now]]
                /\ clock' = Later(now)
          /\ inflight' = [inflight EXCEPT ![scan_id] = i]
    /\ last' = Event("session_start", scan_id, "", TRUE, "")
    /\ UNCHANGED <<nextId, scanQueue, stateQueue, running, stopObserved, requests, edits, startup, db>>

\* the severities of an issue
Severities == {"Info", "Low", "Medium", "High", "Fatal"}

\* an issue a plugin reports while it runs
ReportedIssue(severity) == Issue("REPORTED", "Reported while running", severity)

\* the active plugin call reports an issue: it is appended to its session
report_issue(scan_id, severity) ==
    /\ scan_id \in running
    /\ scan_id \notin stopObserved
    /\ inflight[scan_id] # 0
    /\ LET idx == find_one(scan_id)
           i == inflight[scan_id]
       IN /\ Len(scans[idx].sessions[i].issues) < MaxIssues
          /\ scans' = [scans EXCEPT ![idx].sessions[i].issues = Append(@, ReportedIssue(severity))]
    /\ last' = Event("report_issue", scan_id, severity, TRUE, "")
    /\ UNCHANGED <<clock, nextId, scanQueue, stateQueue, running, inflight, stopObserved,
                   requests, edits, startup, db>>

\* the state a session takes from the way its plugin run ended
SessionOutcome(result) ==
    IF result.exit = "ABORTED" THEN "ABORTED"
    ELSE IF result.exit = "RAISED" THEN "FAILED"
    ELSE "FINISHED"

\* the issues a session takes from its plugin run
SessionIssues(result) ==
    IF result.exit = "RAISED" THEN Append(result.issues, SyntheticIssue) ELSE result.issues

\* record_result that goes on to the next session after an abort
record_result_ignoring_abort(scan, i, result, now) ==
    LET outcome == SessionOutcome(result)
        sessions == [scan.sessions EXCEPT ![i] =
                        [@ EXCEPT !.state = outcome,
                                  !.issues = @ \o SessionIssues(result),
                                  !.finished = now]]
    IN IF i = Len(scan.sessions)
       THEN [scan EXCEPT !.sessions = sessions, !.state = "FINISHED", !.finished = now]
       ELSE [scan EXCEPT !.sessions = sessions]

\* the scan after the driving worker recorded the result of session i
record_result(scan, i, result, now) ==
    LET outcome == SessionOutcome(result)
        sessions == [scan.sessions EXCEPT ![i] =
                        [@ EXCEPT !.state = outcome,
                                  !.issues = @ \o SessionIssues(result),
                                  !.finished = now]]
    IN IF outcome = "ABORTED"
       THEN [scan EXCEPT !.sessions = sessions, !.state = "FAILED", !.finished = now]
       ELSE IF i = Len(scan.sessions)
       THEN [scan EXCEPT !.sessions = sessions, !.state = "FINISHED", !.finished = now]
       ELSE [scan EXCEPT !.sessions = sessions]

\* the active plugin call ends (normally, by abort, by error or by timeout).
\* After a stop signal was processed the session is STOPPED already and the
\* result is dropped; otherwise the result decides the session and the scan.
plugin_return(scan_id, r) ==
    /\ scan_id \in running
    /\ inflight[scan_id] # 0
    /\ LET idx == find_one(scan_id)
           i == inflight[scan_id]
           result == do_run(scans[idx].sessions[i].plugin.class, r)
       IN IF scan_id \in stopObserved
          THEN /\ running' = running \ {scan_id}
               /\ UNCHANGED <<scans, clock>>
          ELSE LET now == clock IN
               LET after == record_result(scans[idx], i, result, now)
               IN /\ scans' = [scans EXCEPT ![idx] = after]
                  /\ clock' = Later(now)
                  /\ running' = IF after.state \in ScanTerminal THEN running \ {scan_id} ELSE running
    /\ inflight' = [inflight EXCEPT ![scan_id] = 0]
    /\ last' = Event("plugin_return", scan_id,
                      do_run(Sessions(scan_id)[inflight[scan_id]].plugin.class, r).exit, TRUE, "")
    /\ UNCHANGED <<nextId, scanQueue, stateQueue, stopObserved, requests, edits, startup, db>>

\* stop_scan that leaves the session in flight alone
stop_scan_spares_inflight(scan, now) ==
    [scan EXCEPT
        !.sessions = [i \in 1..Len(scan.sessions) |->
                        IF scan.sessions[i].state \in SessionTerminal \cup {"STARTED"}
                        THEN scan.sessions[i]
                        ELSE [scan.sessions[i] EXCEPT !.state = "STOPPED", !.finished = now]],
        !.state = IF @ \in ScanTerminal THEN @ ELSE "STOPPED",
        !.finished = IF scan.state \in ScanTerminal THEN @ ELSE now]

\* the scan after a stop signal: sessions that are not terminal are STOPPED,
\* and so is the scan unless it completed before the signal was processed
stop_scan(scan, now) ==
    [scan EXCEPT
        !.sessions = [i \in 1..Len(scan.sessions) |->
                        IF scan.sessions[i].state \in SessionTerminal
                        THEN scan.sessions[i]
                        ELSE [scan.sessions[i] EXCEPT !.state = "STOPPED", !.finished = now]],
        !.state = IF @ \in ScanTerminal THEN @ ELSE "STOPPED",
        !.finished = IF scan.state \in ScanTerminal THEN @ ELSE now]

\* a worker takes a stop signal: no session of the scan starts from now on,
\* an active plugin call is left to end by itself
state_worker_scan_stop(k) ==
    /\ k \in 1..Len(stateQueue)
    /\ LET scan_id == stateQueue[k]
           idx == find_one(scan_id)
       IN /\ stateQueue' = RemoveAt(stateQueue, k)
          /\ last' = Event("state_worker", scan_id, "", TRUE, "")
          /\ LET now == clock IN
                /\ scans' = [scans EXCEPT ![idx] = stop_scan(@, now)]
                /\ clock' = Later(now)
          /\ stopObserved' = stopObserved \cup {scan_id}
          /\ running' = IF inflight[scan_id] = 0 THEN running \ {scan_id} ELSE running
    /\ UNCHANGED <<nextId, scanQueue, inflight, requests, edits, startup, db>>

----------------------------------------------------------------------------

Init ==
    /\ scans = << >>
    /\ clock = 0
    /\ nextId = 1
    /\ scanQueue = << >>
    /\ stateQueue = << >>
    /\ running = {}
    /\ inflight = [k \in {} |-> 0]
    /\ stopObserved = {}
    /\ last = NoEvent
    /\ requests = << >>
    /\ edits = [plans |-> {}, plugins |-> {}]
    /\ startup = Built
    /\ db = EmptyDatabase

Next ==
    \/ \E p \in PlanNames, c \in Configurations : put_scan_create(p, c)
    \/ \E id \in ScanIds \cup {NoSuchId}, s \in Commands : put_scan_control(id, s)
    \/ \E k \in 1..Len(scanQueue) : scan_worker_scan(k)
    \/ \E id \in ScanIds : session_queue(id)
    \/ \E id \in ScanIds : session_start(id)
    \/ \E id \in ScanIds, r \in Responses : plugin_return(id, r)
    \/ \E k \in 1..Len(stateQueue) : state_worker_scan_stop(k)

Spec == Init /\ [][Next]_vars

\* the same system with clients that create scans of the plan headers-first
NextHeadersFirst ==
    \/ \E p \in HeadersFirstPlanNames, c \in Configurations : put_scan_create(p, c)
    \/ \E id \in ScanIds \cup {NoSuchId}, s \in Commands : put_scan_control(id, s)
    \/ \E k \in 1..Len(scanQueue) : scan_worker_scan(k)
    \/ \E id \in ScanIds : session_queue(id)
    \/ \E id \in ScanIds : session_start(id)
    \/ \E id \in ScanIds, r \in HeadersFirstResponses : plugin_return(id, r)
    \/ \E k \in 1..Len(stateQueue) : state_worker_scan_stop(k)

SpecHeadersFirst == Init /\ [][NextHeadersFirst]_vars

\* the same system with control requests handled at the same time: another
\* request or a worker may act between a handler's read and its update
NextConcurrent ==
    \/ \E p \in PlanNames, c \in Configurations : put_scan_create(p, c)
    \/ \E id \in ScanIds \cup {NoSuchId}, s \in Commands : put_scan_control_find(id, s)
    \/ \E k \in 1..Len(requests) : put_scan_control_update(k)
    \/ \E k \in 1..Len(scanQueue) : scan_worker_scan(k)
    \/ \E id \in ScanIds : session_queue(id)
    \/ \E id \in ScanIds : session_start(id)
    \/ \E id \in ScanIds, r \in HeadersFirstResponses : plugin_return(id, r)
    \/ \E k \in 1..Len(stateQueue) : state_worker_scan_stop(k)

SpecConcurrent == Init /\ [][NextConcurrent]_vars

\* the scan API alone, with clients that configure their scans
NextCreate ==
    \/ \E p \in CreatePlanNames, c \in CreateConfigurations : put_scan_create(p, c)
    \/ \E id \in ScanIds \cup {NoSuchId}, s \in Commands : put_scan_control(id, s)

SpecCreate == Init /\ [][NextCreate]_vars

\* plan names of clients while the catalog is edited
CatalogPlanNames == {"configured", "nosuchplan"}

\* the scan API while the plans the clients use are edited and plugins upgraded
NextCatalog ==
    \/ \E p \in CatalogPlanNames, c \in Configurations : put_scan_create(p, c)
    \/ \E id \in ScanIds \cup {NoSuchId}, s \in Commands : put_scan_control(id, s)
    \/ \E p \in CatalogPlanNames \cap DOMAIN plans : plan_edit(p)
    \/ \E n \in DOMAIN plugins : registry_change(n)

SpecCatalog == Init /\ [][NextCatalog]_vars

\* the system when the queues or the collection can fail under the handler
NextInfrastructure ==
    \/ Next
    \/ \E id \in ScanIds, s \in Commands, f \in InfrastructureErrors :
          put_scan_control_raises(id, s, f)

SpecInfrastructure == Init /\ [][NextInfrastructure]_vars

\* plan names of clients that read plans
GetPlanNames == {"basic", "nmap", "nosuchplan"}

\* api.py is imported on a host where each plugin of the allow-list can be
\* imported or not; then clients read plans and the list of plugins
InitRegistry ==
    /\ \E loads \in [AllowListed -> LoadOutcomes] :
          startup = [loads |-> loads, pending |-> AllowList, plugins |-> EmptyRegistry]
    /\ scans = << >>
    /\ clock = 0
    /\ nextId = 1
    /\ scanQueue = << >>
    /\ stateQueue = << >>
    /\ running = {}
    /\ inflight = [k \in {} |-> 0]
    /\ stopObserved = {}
    /\ last = NoEvent
    /\ requests = << >>
    /\ edits = [plans |-> {}, plugins |-> {}]
    /\ db = EmptyDatabase

NextRegistry ==
    \/ register_next
    \/ \E p \in GetPlanNames : get_plan(p)
    \/ get_plugins

SpecRegistry == InitRegistry /\ [][NextRegistry]_vars

\* api.py is imported on such a host; then clients create scans of plans
\* whose plugins the registry has or does not have
NextRegistryCreate ==
    \/ register_next
    \/ \E p \in GetPlanNames, c \in Configurations : put_scan_create(p, c)

SpecRegistryCreate == InitRegistry /\ [][NextRegistryCreate]_vars

\* the ids uuid4() can give to a scan: every create takes one id for the scan
\* and one for each of the two sessions of its plan
PossibleScanIds == { 1 + 3 * n : n \in 0..(MaxScans - 1) }

\* a reachable target that sends X-Frame-Options: SAMEORIGIN
SameOriginResponse == [status |-> "ok", xfo |-> "SAMEORIGIN"]

\* the plans of two steps (Alive, XFrameOptions)
TwoStepPlanNames == {"basic", "configured"}

\* the request configurations of these clients
ScenarioConfigurations ==
    { [target |-> "http://localhost:1234"],
      [target |-> "http://localhost:1234", timeout |-> "30"] }

\* clients create scans of a two-step plan against that target, start them
\* and ask for summaries; nobody stops a scan
NextScenario ==
    \/ \E p \in TwoStepPlanNames, c \in ScenarioConfigurations : put_scan_create(p, c)
    \/ \E id \in ScanIds : put_scan_control(id, "START")
    \/ \E k \in 1..Len(scanQueue) : scan_worker_scan(k)
    \/ \E id \in ScanIds : session_queue(id)
    \/ \E id \in ScanIds : session_start(id)
    \/ \E id \in ScanIds : plugin_return(id, SameOriginResponse)
    \/ \E id \in ScanIds : get_scan_summary(id)

\* fair scheduling of the workers in this scenario
FairnessScenario ==
    \A id \in PossibleScanIds :
        /\ WF_vars(\E k \in 1..Len(scanQueue) : scanQueue[k] = id /\ scan_worker_scan(k))
        /\ WF_vars(session_queue(id))
        /\ WF_vars(session_start(id))
        /\ WF_vars(plugin_return(id, SameOriginResponse))

SpecScenario == Init /\ [][NextScenario]_vars /\ FairnessScenario

\* values of the policy headers of a target: a sequence of directive groups
GoodPolicy == << <<"default-src", "'self'">>, <<"img-src", "*", "'unsafe-inline'">> >>

CSPPolicies ==
    { << >>,
      GoodPolicy,
      << <<"default-src", "'none'">>, << >> >>,
      << <<"script-src", "'self'", "'unsafe-inline'">> >>,
      << <<"default-src", "'self'">>, <<"style-src", "'unsafe-eval'">> >>,
      << <<"default-src", "'none'", "'self'">> >>,
      << <<"script-src", "'none'", "'unsafe-inline'">> >>,
      << <<"allow", "'self'">> >>,
      << <<"default-src", "'self'">>, <<"unknown-directive", "'self'">> >>,
      << <<"xhr-src", "'self'">>, <<"sandbox">> >> }

\* the values the other three headers take: a policy without a problem and
\* one with the deprecated directive of the X- header
OtherPolicies(name) ==
    IF name = XCSP THEN {GoodPolicy, << <<"allow", "'self'">> >>} ELSE {GoodPolicy}

\* the responses of the targets the CSP plugin is run against
CSPResponses ==
    { [status |-> "unreachable", headers |-> EmptyDict], [status |-> "bad", headers |-> EmptyDict] }
    \cup { [status |-> "ok", headers |-> h] :
             h \in { g \in UNION { [present -> CSPPolicies] : present \in SUBSET CSPHeaderNames } :
                       \A name \in DOMAIN g \ {CSP} : g[name] \in OtherPolicies(name) } }

NextCSP == \E r \in CSPResponses : CSPPlugin_run(r)

SpecCSP == Init /\ [][NextCSP]_vars

\* the users and the groups that the functional tests of the invitations
\* set up before the first invitation is sent: the sender, two invited
\* recipients (one without a name) and a user with an account
InvitedUsers ==
    { [id |-> 101, email |-> SenderEmail, name |-> "Bob", status |-> "active"],
      [id |-> 102, email |-> AliceEmail, name |-> "Alice", status |-> "invited"],
      [id |-> 103, email |-> BettyEmail, name |-> "", status |-> "invited"],
      [id |-> 104, email |-> ExistingEmail, name |-> "Existing", status |-> "active"] }

GroupSetups ==
    { ("test_group1" :> <<AliceEmail>>) @@ ("test_group2" :> <<ExistingEmail>>),
      ("test_group1" :> <<AliceEmail, ExistingEmail>>) @@ ("test_group2" :> <<BettyEmail, AliceEmail>>) }

InitInvites ==
    /\ \E setup \in GroupSetups :
          db = [users |-> InvitedUsers, groups |-> setup, invites |-> << >>, outbox |-> {}]
    /\ scans = << >>
    /\ clock = 0
    /\ nextId = 1
    /\ scanQueue = << >>
    /\ stateQueue = << >>
    /\ running = {}
    /\ inflight = [id \in {} |-> 0]
    /\ stopObserved = {}
    /\ last = NoEvent
    /\ requests = << >>
    /\ edits = [plans |-> {}, plugins |-> {}]
    /\ startup = Built

\* the JSON bodies of POST /invites: invitations of a recipient, of a user
\* who has joined and of somebody who is not a user, and one from a sender
\* who is not a user
CreateInvitesRequests ==
    { [recipient |-> AliceEmail, sender |-> SenderEmail, max_time_allowed |-> None,
       notify_when |-> {"accept", "decline"}],
      [recipient |-> ExistingEmail, sender |-> SenderEmail, max_time_allowed |-> None,
       notify_when |-> {}],
      [recipient |-> PersonaEmail, sender |-> SenderEmail, max_time_allowed |-> None,
       notify_when |-> {}],
      [recipient |-> AliceEmail, sender |-> PersonaEmail, max_time_allowed |-> None,
       notify_when |-> {}] }

\* the ids clients put in the path of a request: those of the invitations
\* and one that no invitation has
InviteIds == { db.invites[i].id : i \in 1..Len(db.invites) } \cup {NoSuchId}

\* the JSON bodies of POST /invites/<invite_id>/accept
AcceptRequests == { [login |-> e] : e \in {AliceEmail, BettyEmail, ExistingEmail, PersonaEmail} }

\* the invitation API with requests handled one at a time
NextInvites ==
    \/ \E json \in CreateInvitesRequests, smtp \in SMTPOutcomes : create_invites(json, smtp)
    \/ \E id \in InviteIds : delete_invite(id)
    \/ \E id \in InviteIds, smtp \in SMTPOutcomes : decline_invitation(id, smtp)
    \/ \E id \in InviteIds, smtp \in SMTPOutcomes : resend_invitation(id, smtp)
    \/ \E id \in InviteIds, json \in AcceptRequests, smtp \in SMTPOutcomes :
          accept_invite(id, json, smtp)

SpecInvites == InitInvites /\ [][NextInvites]_vars

\* create requests handled at the same time, and invitations deleted
NextInvitesConcurrent ==
    \/ \E json \in CreateInvitesRequests : create_invites_find(json)
    \/ \E k \in 1..Len(requests), smtp \in SMTPOutcomes : create_invites_insert(k, smtp)
    \/ \E id \in InviteIds : delete_invite(id)

SpecInvitesConcurrent == InitInvites /\ [][NextInvitesConcurrent]_vars

\* invitations of two recipients
TwoRecipientsRequests ==
    { [recipient |-> r, sender |-> SenderEmail, max_time_allowed |-> None, notify_when |-> {}] :
        r \in {AliceEmail, BettyEmail} }

\* the logins of somebody who accepts with the invited e-mail or with a new one
OwnOrNewLogin(id) ==
    { [login |-> e] : e \in {invites_find_one_id(id).recipient, PersonaEmail} }

\* two recipients are invited; invitations are accepted, declined and deleted
NextInvitesTwo ==
    \/ \E json \in TwoRecipientsRequests : create_invites(json, "sent")
    \/ \E id \in InviteIds : delete_invite(id)
    \/ \E id \in InviteIds : decline_invitation(id, "sent")
    \/ \E id \in InviteIds \ {NoSuchId} :
          \E json \in OwnOrNewLogin(id) : accept_invite(id, json, "sent")

SpecInvitesTwo == InitInvites /\ [][NextInvitesTwo]_vars

\* invitations of one recipient that are valid for a week or for a second
ExpiryRequests ==
    { [recipient |-> AliceEmail, sender |-> SenderEmail, max_time_allowed |-> m,
       notify_when |-> {}] : m \in {None, 1} }

\* an invitation is sent, time passes, the invitation is sent again or
\* accepted
NextInvitesExpiry ==
    \/ \E json \in ExpiryRequests : create_invites(json, "sent")
    \/ \E id \in InviteIds : resend_invitation(id, "sent")
    \/ \E id \in InviteIds, json \in AcceptRequests : accept_invite(id, json, "sent")
    \/ time_passes

SpecInvitesExpiry == InitInvites /\ [][NextInvitesExpiry]_vars

\* e-mail addresses clients put in the query of a GET
Emails == {NoEmail, MemberEmail, OutsiderEmail}

\* the scan API with clients that act on behalf of users
NextRequester ==
    \/ \E json \in CreateRequests : put_scan_create_request(json)
    \/ \E id \in ScanIds \cup {NoSuchId}, s \in Commands : put_scan_control(id, s)
    \/ \E id \in ScanIds \cup {NoSuchId}, e \in Emails : get_scan_request(id, e)
    \/ \E id \in ScanIds \cup {NoSuchId} : get_scan_summary(id)

SpecRequester == Init /\ [][NextRequester]_vars

\* collections of scans that clients have created over time: how many there
\* are, how their creation times follow each other, and which sites they scan
HistorySizes ==
    {0, 1, 2, 3, HistoryLimit - 1, HistoryLimit, HistoryLimit + 1, HistoryLimit + 2}

CreatedPatterns == {"one-per-tick", "two-per-tick"}

TargetPatterns == {"group-site", "alternating"}

\* the i-th scan of such a collection, as put_scan_create stored it
HistoryScan(i, created_pattern, target_pattern) ==
    new_scan(1 + 3 * (i - 1), plans["basic"],
             [target |-> IF target_pattern = "alternating" /\ i % 2 = 0
                         THEN "http://other.example"
                         ELSE "http://localhost:1234"],
             IF created_pattern = "one-per-tick" THEN i - 1 ELSE (i - 1) \div 2)

InitHistory ==
    /\ edits = [plans |-> {}, plugins |-> {}]
    /\ startup = Built
    /\ db = EmptyDatabase
    /\ \E n \in HistorySizes, cp \in CreatedPatterns, tp \in TargetPatterns :
          /\ scans = [i \in 1..n |-> HistoryScan(i, cp, tp)]
          /\ nextId = 1 + 3 * n
          /\ inflight = [id \in { 1 + 3 * (i - 1) : i \in 1..n } |-> 0]
    /\ clock = MaxClock
    /\ scanQueue = << >>
    /\ stateQueue = << >>
    /\ running = {}
    /\ stopObserved = {}
    /\ last = NoEvent
    /\ requests = << >>

\* the user arguments of GET /reports/history
HistoryEmails == {NoEmail, MemberEmail, OutsiderEmail, UnknownEmail}

\* clients ask for the history of a collection of scans
NextHistory == \E e \in HistoryEmails : get_reports_history(e)

SpecHistory == InitHistory /\ [][NextHistory]_vars

\* a scan of the plan basic that a worker has just started: the state after
\* POST /scans, PUT /scans/<id>/control START and the worker's first step
StartedScan ==
    [start_update(new_scan(1, plans["basic"], [target |-> "http://localhost:1234"], 0), 1)
        EXCEPT !.state = "STARTED", !.started = 2]

InitSummary ==
    /\ edits = [plans |-> {}, plugins |-> {}]
    /\ startup = Built
    /\ db = EmptyDatabase
    /\ scans = <<StartedScan>>
    /\ clock = MaxClock
    /\ nextId = 4
    /\ scanQueue = << >>
    /\ stateQueue = << >>
    /\ running = {1}
    /\ inflight = (1 :> 0)
    /\ stopObserved = {}
    /\ last = Event("scan_worker", 1, "", TRUE, "")
    /\ requests = << >>

\* a started scan whose plugins report issues while clients ask for summaries
NextSummary ==
    \/ \E id \in ScanIds : session_queue(id)
    \/ \E id \in ScanIds : session_start(id)
    \/ \E id \in ScanIds, sev \in Severities : report_issue(id, sev)
    \/ \E id \in ScanIds, r \in HeadersFirstResponses : plugin_return(id, r)
    \/ \E id \in ScanIds \cup {NoSuchId} : get_scan_summary(id)

SpecSummary == InitSummary /\ [][NextSummary]_vars

\* fair scheduling of the workers: a message that waits in a queue is taken,
\* the worker that drives a scan takes its next step, and every plugin call
\* ends (at the latest by the hard timeout)
Fairness ==
    \A id \in PossibleScanIds :
        /\ WF_vars(\E k \in 1..Len(scanQueue) : scanQueue[k] = id /\ scan_worker_scan(k))
        /\ WF_vars(\E k \in 1..Len(stateQueue) : stateQueue[k] = id /\ state_worker_scan_stop(k))
        /\ WF_vars(session_queue(id))
        /\ WF_vars(session_start(id))
        /\ WF_vars(\E r \in Responses : plugin_return(id, r))

FairSpec == Spec /\ Fairness

----------------------------------------------------------------------------
(* Properties of the state machine *)

\* position of a scan state along CREATED -> QUEUED -> STARTED -> STOPPING -> terminal
ScanRank(state) ==
    CASE state = "CREATED" -> 0
      [] state = "QUEUED" -> 1
      [] state = "STARTED" -> 2
      [] state = "STOPPING" -> 3
      [] OTHER -> 4

\* position of a session state along CREATED -> QUEUED -> STARTED -> terminal
SessionRank(state) ==
    CASE state = "CREATED" -> 0
      [] state = "QUEUED" -> 1
      [] state = "STARTED" -> 2
      [] OTHER -> 3

\* the step taken is a control request for scan_id with this command
IsControl(ev, scan_id, state) == ev.op = "control" /\ ev.id = scan_id /\ ev.state = state

\* C1: under any sequence of START and STOP requests and scheduler steps, no
\* scan and no session moves backwards along its chain of states, and a scan
\* or session in a terminal state never changes state again.
C1_StateNeverRegresses ==
    [][\A i \in 1..Len(scans) :
          /\ ScanRank(scans'[i].state) >= ScanRank(scans[i].state)
          /\ scans[i].state \in ScanTerminal => scans'[i].state = scans[i].state
          /\ \A n \in 1..Len(scans[i].sessions) :
                /\ SessionRank(scans'[i].sessions[n].state) >= SessionRank(scans[i].sessions[n].state)
                /\ scans[i].sessions[n].state \in SessionTerminal
                      => scans'[i].sessions[n].state = scans[i].sessions[n].state]_vars

\* C2: START on a CREATED scan answers success, moves the scan to QUEUED,
\* stamps queued with the time of the request, appends the scan id to the
\* start queue once and leaves the stop queue alone; GET /scans/<id> right
\* after the request shows state QUEUED.
C2_StartQueuesScan ==
    [][\A id \in ScanIds :
          (IsControl(last', id, "START") /\ Scan(id).state = "CREATED")
          => /\ last'.success /\ last'.error = ""
             /\ scans'[find_one(id)].state = "QUEUED"
             /\ scans'[find_one(id)].queued = clock
             /\ scans'[find_one(id)].queued # None
             /\ scanQueue' = Append(scanQueue, id)
             /\ Count(scanQueue', id) = 1
             /\ stateQueue' = stateQueue
             /\ get_scan(id)'.success
             /\ get_scan(id)'.scan.state = "QUEUED"
             /\ get_scan(id)'.scan.queued # None]_vars

\* a START request has just been accepted and no worker has taken the scan yet
C2_Witness ==
    /\ last.op = "control" /\ last.state = "START" /\ last.success
    /\ find_one(last.id) # 0
    /\ Scan(last.id).state = "QUEUED"
    /\ Scan(last.id).queued > Scan(last.id).created
    /\ Count(scanQueue, last.id) = 1

\* C3: START on a scan in any state but CREATED answers
\* invalid-state-transition and changes neither the scan (state, timestamps,
\* sessions) nor the clock nor any queue.
C3_StartRejected ==
    [][\A id \in ScanIds :
          (IsControl(last', id, "START") /\ Scan(id).state # "CREATED")
          => /\ ~last'.success
             /\ last'.error = "invalid-state-transition"
             /\ scans' = scans
             /\ scanQueue' = scanQueue
             /\ stateQueue' = stateQueue
             /\ UNCHANGED <<running, inflight, stopObserved>>]_vars

\* START was rejected for a scan that finished its plan
C3_Witness ==
    /\ last.op = "control" /\ last.state = "START"
    /\ last.error = "invalid-state-transition"
    /\ find_one(last.id) # 0
    /\ Scan(last.id).state = "FINISHED"
    /\ \A n \in 1..Len(Scan(last.id).sessions) : Scan(last.id).sessions[n].state = "FINISHED"

\* C4: STOP on a scan that is CREATED, QUEUED, STARTED or STOPPING answers
\* success, leaves the scan STOPPING and appends one stop signal to the stop
\* queue, whatever the states of its sessions; STOP on a FINISHED, STOPPED or
\* FAILED scan does not move it to STOPPING.
C4_StopOnlyFromNonTerminal ==
    [][\A id \in ScanIds :
          IsControl(last', id, "STOP")
          => IF Scan(id).state \in ScanTerminal
             THEN scans'[find_one(id)].state = Scan(id).state
             ELSE /\ last'.success
                  /\ scans'[find_one(id)].state = "STOPPING"
                  /\ stateQueue' = Append(stateQueue, id)
                  /\ scanQueue' = scanQueue
                  /\ scans'[find_one(id)].sessions = Scan(id).sessions]_vars

\* C5: a control request for an id that matches no scan answers no-such-scan,
\* one with a command other than START and STOP answers unknown-state; both
\* leave the scans, the clock and the queues as they were.
C5_BadRequestChangesNothing ==
    [][\A id \in ScanIds \cup {NoSuchId}, state \in Commands :
          (IsControl(last', id, state) /\ (find_one(id) = 0 \/ state \notin {"START", "STOP"}))
          => /\ ~last'.success
             /\ last'.error = IF find_one(id) = 0 THEN "no-such-scan" ELSE "unknown-state"
             /\ UNCHANGED <<scans, clock, nextId, scanQueue, stateQueue, running, inflight, stopObserved>>]_vars

\* an unknown command for an unknown id was answered while a scan is queued
C5_Witness ==
    /\ last.op = "control" /\ last.id = NoSuchId /\ last.state = "PAUSE"
    /\ last.error = "no-such-scan"
    /\ Len(scans) > 0
    /\ Len(scanQueue) > 0

\* an unknown command for a scan that exists was answered unknown-state
C5_WitnessUnknownState ==
    /\ last.op = "control" /\ last.state = "PAUSE"
    /\ find_one(last.id) # 0
    /\ last.error = "unknown-state"
    /\ Len(stateQueue) > 0

----------------------------------------------------------------------------
(* Properties of the scheduler *)

\* C6: sessions run in plan order: a session is STARTED or beyond only when
\* the session before it is terminal, and at most one session of a scan is
\* STARTED at a time.
C6_SessionsInPlanOrder ==
    \A id \in ScanIds :
        /\ \A n \in 1..(Len(Sessions(id)) - 1) :
              Sessions(id)[n + 1].state \notin {"CREATED", "QUEUED"}
              => Sessions(id)[n].state \in SessionTerminal
        /\ Cardinality({ n \in 1..Len(Sessions(id)) : Sessions(id)[n].state = "STARTED" }) <= 1

\* the second session runs after the first one finished
C6_Witness ==
    \E id \in ScanIds :
        /\ Sessions(id)[1].state = "FINISHED"
        /\ Sessions(id)[2].state = "STARTED"
        /\ inflight[id] = 2

\* C7: when a session of a scan is ABORTED, no later session of the scan has
\* started, and the scan is FAILED.
C7_AbortFailsScan ==
    \A id \in ScanIds :
        \A n \in 1..Len(Sessions(id)) :
            Sessions(id)[n].state = "ABORTED"
            => /\ \A m \in (n + 1)..Len(Sessions(id)) :
                     /\ Sessions(id)[m].state \in {"CREATED", "STOPPED"}
                     /\ Sessions(id)[m].started = None
               /\ Scan(id).state = "FAILED"

\* C8: a FINISHED scan has all its sessions terminal and none of them ABORTED.
C8_FinishedScanIsComplete ==
    \A id \in ScanIds :
        Scan(id).state = "FINISHED"
        => \A n \in 1..Len(Sessions(id)) :
              /\ Sessions(id)[n].state \in SessionTerminal
              /\ Sessions(id)[n].state # "ABORTED"

\* a scan finished although its second plugin raised
C8_Witness ==
    \E id \in ScanIds :
        /\ Scan(id).state = "FINISHED"
        /\ Sessions(id)[1].state = "FINISHED"
        /\ Sessions(id)[2].state = "FAILED"

\* STOP has just been accepted for a scan whose start message is still in
\* the start queue and that no worker has started
StopWhileQueued(id) ==
    /\ id \in ScanIds
    /\ last.op = "control" /\ last.id = id /\ last.state = "STOP" /\ last.success
    /\ Count(scanQueue, id) = 1
    /\ Scan(id).started = None

\* no session of the scan has started, no worker drives it, and once no stop
\* signal for it is waiting the scan and all its sessions are STOPPED
StoppedBeforeStart(id) ==
    /\ id \in ScanIds
    /\ \A n \in 1..Len(Sessions(id)) :
          /\ Sessions(id)[n].state \in {"CREATED", "STOPPED"}
          /\ Sessions(id)[n].started = None
    /\ id \notin running
    /\ Scan(id).state \in {"STOPPING", "STOPPED"}
    /\ Scan(id).state = "STOPPING" => Count(stateQueue, id) > 0
    /\ Count(stateQueue, id) = 0
          => /\ Scan(id).state = "STOPPED"
             /\ \A n \in 1..Len(Sessions(id)) : Sessions(id)[n].state = "STOPPED"

\* C9: once STOP is accepted for a QUEUED scan whose start message is still
\* waiting, no session of the scan ever starts, and the scan ends STOPPED
\* with all sessions STOPPED, in whichever order the workers take the start
\* message and the stop signal: the state right after the STOP satisfies
\* StoppedBeforeStart, and no step leaves StoppedBeforeStart.
C9_StopWhileQueuedStops ==
    [][\A id \in ScanIds' :
          /\ StopWhileQueued(id)' => StoppedBeforeStart(id)'
          /\ StoppedBeforeStart(id) => StoppedBeforeStart(id)']_vars

\* the stop signal was taken first: the scan is STOPPED while its start
\* message still waits
C9_Witness ==
    \E id \in ScanIds :
        /\ Scan(id).state = "STOPPED"
        /\ Count(scanQueue, id) = 1
        /\ Count(stateQueue, id) = 0
        /\ \A n \in 1..Len(Sessions(id)) : Sessions(id)[n].state = "STOPPED"

\* the start message was taken first and dropped: the stop signal still waits
C9_WitnessStartFirst ==
    \E id \in ScanIds :
        /\ Scan(id).state = "STOPPING"
        /\ Scan(id).queued # None /\ Scan(id).started = None
        /\ last.op = "scan_worker" /\ last.id = id
        /\ Count(stateQueue, id) = 1

\* C10: a stop signal processed while a plugin call of the scan is active
\* leaves the call active, marks the session in flight and the sessions after
\* it STOPPED and moves the scan to STOPPED; once a stop signal was processed
\* no session of the scan changes state any more (none starts, and the result
\* of the call that ends later is not recorded).
C10_StopWithSessionInFlight ==
    [][\A id \in ScanIds :
          /\ (last'.op = "state_worker" /\ last'.id = id /\ inflight[id] # 0)
             => /\ inflight'[id] = inflight[id]
                /\ id \in running'
                /\ \A n \in 1..Len(Sessions(id)) :
                      scans'[find_one(id)].sessions[n].state =
                         IF n >= inflight[id] THEN "STOPPED" ELSE Sessions(id)[n].state
                /\ scans'[find_one(id)].state = "STOPPED"
          /\ id \in stopObserved
             => /\ \A n \in 1..Len(Sessions(id)) :
                      /\ scans'[find_one(id)].sessions[n] = Sessions(id)[n]
                      /\ Sessions(id)[n].state \in SessionTerminal
                /\ id \in stopObserved'
                /\ inflight'[id] \in {0, inflight[id]}]_vars

\* the stop signal was processed while the first plugin call is still active
C10_Witness ==
    \E id \in ScanIds :
        /\ id \in stopObserved
        /\ inflight[id] = 1
        /\ Scan(id).state = "STOPPED"
        /\ \A n \in 1..Len(Sessions(id)) : Sessions(id)[n].state = "STOPPED"

\* the call that was active when the stop signal was processed has ended
C10_WitnessCallEnded ==
    \E id \in ScanIds :
        /\ id \in stopObserved
        /\ last.op = "plugin_return" /\ last.id = id
        /\ inflight[id] = 0
        /\ Sessions(id)[1].state = "STOPPED" /\ Sessions(id)[1].started # None

----------------------------------------------------------------------------
(* Properties of plugin errors and of concurrent requests *)

\* C11: XFrameOptionsPlugin never aborts: when its request fails the error
\* leaves do_run.  A plugin call that ends with an error puts its session in
\* FAILED with the synthetic issue appended; when the session is not the last
\* one the scan keeps its state, its worker keeps driving it and the next
\* session in plan order is the one to queue.  Only a call that ends with an
\* abort takes the scan from its worker with sessions left to run.
C11_PluginErrorDoesNotHalt ==
    [][\A id \in ScanIds :
          (last'.op = "plugin_return" /\ last'.id = id /\ id \notin stopObserved)
          => LET i == inflight[id]
                 n == Len(Sessions(id))
                 before == Sessions(id)[i]
                 scanAfter == scans'[find_one(id)]
                 after == scanAfter.sessions[i]
             IN /\ before.plugin.class = XFrameOptionsPluginName => last'.state # "ABORTED"
                /\ last'.state = "RAISED"
                      => /\ after.state = "FAILED"
                         /\ after.issues = Append(before.issues, SyntheticIssue)
                         /\ scanAfter.state # "FAILED"
                /\ (last'.state # "ABORTED" /\ i < n)
                      => /\ scanAfter.state = Scan(id).state
                         /\ id \in running'
                         /\ inflight'[id] = 0
                         /\ NextSession(scanAfter) = i + 1
                         /\ scanAfter.sessions[i + 1].state = "CREATED"
                /\ (last'.state = "ABORTED" /\ i < n)
                      => /\ id \notin running'
                         /\ scanAfter.state = "FAILED"
                         /\ scanAfter.sessions[i + 1].state = "CREATED"]_vars

\* the header check failed with an error and the next session is running
C11_Witness ==
    \E id \in ScanIds :
        /\ Sessions(id)[1].plugin.class = XFrameOptionsPluginName
        /\ Sessions(id)[1].state = "FAILED"
        /\ Sessions(id)[1].issues = <<SyntheticIssue>>
        /\ Sessions(id)[2].state = "STARTED"
        /\ Scan(id).state = "STARTED"
        /\ inflight[id] = 2

\* C12: at most one worker drives a scan at any time, however the control
\* requests and the worker steps interleave: a worker that takes a start
\* message starts driving the scan only when no worker is driving it.
C12_OneWorkerPerScan ==
    [][\A id \in ScanIds :
          (last'.op = "scan_worker" /\ last'.id = id /\ Len(scanQueue') < Len(scanQueue)
           /\ Scan(id).state = "QUEUED" /\ scans'[find_one(id)].state = "STARTED")
          => id \notin running]_vars

----------------------------------------------------------------------------
(* Properties of timestamps *)

\* two timestamps are in order when either is null or the first is not later
InOrder(a, b) == (a # None /\ b # None) => a <= b

\* created <= queued <= started <= finished over the timestamps that are set
Monotonic(record) ==
    /\ InOrder(record.created, record.queued)
    /\ InOrder(record.created, record.started)
    /\ InOrder(record.created, record.finished)
    /\ InOrder(record.queued, record.started)
    /\ InOrder(record.queued, record.finished)
    /\ InOrder(record.started, record.finished)

\* C13: in every state the timestamps of every stored scan that are not null
\* satisfy created <= queued <= started <= finished, after any sequence of
\* START and STOP requests and worker steps.
C13_TimestampsMonotonic ==
    \A id \in ScanIds : Monotonic(Scan(id))

----------------------------------------------------------------------------
(* Properties of termination *)

\* the scan was moved to QUEUED by START or to STOPPING by STOP
Moved(id) == id \in ScanIds /\ Scan(id).state \in {"QUEUED", "STOPPING"}

ScanEnded(id) == id \in ScanIds /\ Scan(id).state \in ScanTerminal

AllSessionsEnded(id) ==
    /\ id \in ScanIds
    /\ \A n \in 1..Len(Sessions(id)) : Sessions(id)[n].state \in SessionTerminal

\* every session is terminal or comes after an ABORTED session of the scan
SessionsEndedOrCutOff(id) ==
    /\ id \in ScanIds
    /\ \A n \in 1..Len(Sessions(id)) :
          \/ Sessions(id)[n].state \in SessionTerminal
          \/ \E m \in 1..(n - 1) : Sessions(id)[m].state = "ABORTED"

----------------------------------------------------------------------------
(* Properties of create *)

\* the step just taken created a scan
Created(ev) == ev.op = "create" /\ ev.success

\* C15: the scan that create stores has one session for each step of the
\* workflow of its plan, in workflow order, with the descriptor of the step's
\* plugin and the step's description; the configuration of session i has the
\* keys of the step's base configuration and of the request configuration,
\* with the request's value for every key of the request and the base value
\* for the others.
C15_SessionsFromWorkflow ==
    [][Created(last')
       => LET scan == scans'[Len(scans')]
              plan == stored_plan(last'.state)
          IN /\ Len(scans') = Len(scans) + 1
             /\ scan.id = last'.id
             /\ Len(scan.sessions) = Len(plan.workflow)
             /\ \A i \in 1..Len(plan.workflow) :
                   LET step == plan.workflow[i]
                       session == scan.sessions[i]
                   IN /\ session.plugin = registry_descriptor(step.plugin_name)
                      /\ session.plugin.class = step.plugin_name
                      /\ session.description = step.description
                      /\ DOMAIN session.configuration =
                            (DOMAIN step.configuration) \cup (DOMAIN scan.configuration)
                      /\ \A k \in DOMAIN scan.configuration :
                            session.configuration[k] = scan.configuration[k]
                      /\ \A k \in (DOMAIN step.configuration) \ (DOMAIN scan.configuration) :
                            session.configuration[k] = step.configuration[k]]_vars

\* a scan of the plan "configured" whose request overrides the timeout of
\* both steps and brings a target of its own
C15_Witness ==
    /\ Created(last)
    /\ last.state = "configured"
    /\ Len(Sessions(last.id)) = 2
    /\ Scan(last.id).configuration.target = "http://localhost:1234"
    /\ "timeout" \in DOMAIN Scan(last.id).configuration
    /\ \A i \in 1..2 :
          /\ Sessions(last.id)[i].configuration.timeout = "30"
          /\ Sessions(last.id)[i].configuration.target = "http://localhost:1234"
    /\ Sessions(last.id)[1].plugin.name = "Alive"
    /\ Sessions(last.id)[2].plugin.name = "XFrameOptions"

\* the keys under which the configurations of this model hold maps
MapKeys == {"auth"}

\* C16: the merge is deep: where the step's base configuration and the
\* request configuration both hold a map under a key, the session
\* configuration holds under that key the nested keys of both maps, with the
\* request's value for the nested keys of the request and the base value for
\* the nested keys that only the base defines.
C16_NestedMapsMerged ==
    [][Created(last')
       => LET scan == scans'[Len(scans')]
              plan == stored_plan(last'.state)
          IN \A i \in 1..Len(plan.workflow) :
                LET base == plan.workflow[i].configuration
                    merged == scan.sessions[i].configuration
                IN \A k \in MapKeys \cap (DOMAIN base) \cap (DOMAIN scan.configuration) :
                      /\ DOMAIN merged[k] = (DOMAIN base[k]) \cup (DOMAIN scan.configuration[k])
                      /\ \A j \in DOMAIN scan.configuration[k] :
                            merged[k][j] = scan.configuration[k][j]
                      /\ \A j \in (DOMAIN base[k]) \ (DOMAIN scan.configuration[k]) :
                            merged[k][j] = base[k][j]]_vars

\* the scans and sessions of the collection: <<i, 0>> is scan i, <<i, n>> its
\* session n
Documents(coll) ==
    { <<i, 0>> : i \in 1..Len(coll) }
    \cup { <<i, n>> : i \in 1..Len(coll), n \in 1..2 }

IdOf(coll, doc) == IF doc[2] = 0 THEN coll[doc[1]].id ELSE coll[doc[1]].sessions[doc[2]].id

\* C17: the scan that create stores, and the scan that GET /scans/<id> returns
\* right after, is CREATED with created set and queued, started and finished
\* null; each of its sessions is CREATED with no issues, no artifacts and
\* queued, started, finished and progress null; no two of the stored scans and
\* sessions have the same id.
C17_NewScanIsBlank ==
    [][/\ Created(last') => last'.id \in PossibleScanIds
       /\ \A id \in PossibleScanIds : (Created(last') /\ last'.id = id)
          => LET scan == scans'[Len(scans')]
              view == get_scan(id)'
          IN /\ scan.id = id
             /\ scan.state = "CREATED"
             /\ scan.created # None /\ scan.created = clock
             /\ scan.queued = None /\ scan.started = None /\ scan.finished = None
             /\ view.success
             /\ view.scan.state = "CREATED"
             /\ view.scan.created # None
             /\ view.scan.queued = None /\ view.scan.started = None /\ view.scan.finished = None
             /\ Len(scan.sessions) > 0
             /\ \A n \in 1..Len(scan.sessions) :
                   \A session \in {scan.sessions[n], view.scan.sessions[n]} :
                      /\ session.state = "CREATED"
                      /\ session.issues = << >>
                      /\ DOMAIN session.artifacts = {}
                      /\ session.queued = None /\ session.started = None
                      /\ session.finished = None /\ session.progress = None
             /\ \A a, b \in Documents(scans') :
                   a # b => IdOf(scans', a) # IdOf(scans', b)]_vars

\* a scan of the plan basic has just been created and is read back
C17_Witness ==
    /\ Created(last)
    /\ last.state = "basic"
    /\ get_scan(last.id).success
    /\ get_scan(last.id).scan.state = "CREATED"
    /\ get_scan(last.id).scan.queued = None
    /\ Len(get_scan(last.id).scan.sessions) = 2
    /\ Cardinality({ IdOf(scans, d) : d \in Documents(scans) }) = 3 * Len(scans)

\* C18: create for a plan name that is not in the catalog answers
\* success=false and stores nothing: the scans, the ids handed out, the clock
\* and the queues are as before; create for a plan of the catalog succeeds.
C18_UnknownPlanStoresNothing ==
    [][\A p \in CreatePlanNames :
          (last'.op = "create" /\ last'.state = p)
          => IF p \in DOMAIN plans
             THEN last'.success /\ Len(scans') = Len(scans) + 1
             ELSE /\ ~last'.success
                  /\ scans' = scans
                  /\ ScanIds' = ScanIds
                  /\ UNCHANGED <<clock, nextId, scanQueue, stateQueue, running,
                                 inflight, stopObserved, requests, edits, startup, db>>]_vars

\* create for an unknown plan was refused while a scan is stored and queued
C18_Witness ==
    /\ last.op = "create" /\ ~last.success
    /\ last.state = "nosuchplan"
    /\ last.state \notin DOMAIN plans
    /\ Len(scans) = 1
    /\ scans[1].state = "QUEUED"
    /\ Len(scanQueue) = 1

----------------------------------------------------------------------------
(* Properties of the snapshots a scan holds *)

\* what a scan holds of its plan, of the request and of the registry
Snapshot(scan) ==
    [plan |-> scan.plan,
     configuration |-> scan.configuration,
     sessions |-> [n \in 1..Len(scan.sessions) |->
                     [configuration |-> scan.sessions[n].configuration,
                      plugin |-> scan.sessions[n].plugin,
                      description |-> scan.sessions[n].description]]]

\* C19: no step changes the plan snapshot, the configuration, or a session's
\* configuration or plugin descriptor of a scan that is stored, neither in the
\* collection nor in what GET /scans/<id> returns: not a START or STOP
\* request, not an edit of the plan the scan was created from, not a change
\* of the plugin registry.
C19_SnapshotsNeverChange ==
    [][\A id \in ScanIds :
          /\ id \in ScanIds'
          /\ Snapshot(Scan(id))' = Snapshot(Scan(id))
          /\ get_scan(id)'.success
          /\ Snapshot(get_scan(id).scan)' = Snapshot(get_scan(id).scan)]_vars

\* a scan was started and stopped, its plan was edited and its plugins were
\* upgraded since: the scan still shows the plan and the descriptors it was
\* created with, a scan created now would get others
C19_Witness ==
    \E id \in ScanIds :
        /\ Scan(id).state = "STOPPING"
        /\ Scan(id).plan.name = "configured"
        /\ "configured" \in edits.plans
        /\ edits.plugins = DOMAIN plugins
        /\ \A n \in 1..Len(Sessions(id)) :
              /\ get_scan(id).scan.sessions[n].plugin = plugins[Sessions(id)[n].plugin.class].descriptor
              /\ get_scan(id).scan.sessions[n].plugin # registry_descriptor(Sessions(id)[n].plugin.class)
        /\ Sessions(id)[1].description # stored_plan("configured").workflow[1].description
        /\ Sessions(id)[1].configuration.timeout # stored_plan("configured").workflow[1].configuration.timeout

----------------------------------------------------------------------------
(* Properties of the summary *)

\* the places of the issues of a scan that have this severity
IssuesOfSeverity(scan, severity) ==
    { <<n, j>> \in (1..Len(scan.sessions)) \X (1..(MaxIssues + 2)) :
         /\ j <= Len(scan.sessions[n].issues)
         /\ scan.sessions[n].issues[j].Severity = severity }

\* C20: the summary that GET /scans/<id>/summary returns carries, for High,
\* Medium, Low and Info, the number of issues of that severity that the
\* sessions of the stored scan hold when the request is handled, whatever
\* was reported before and whatever earlier summaries said; the request
\* changes nothing.
C20_SummaryCountsIssues ==
    [][\A id \in ScanIds :
          (last'.op = "summary" /\ last'.id = id)
          => /\ last'.success
             /\ last'.summary.id = id
             /\ last'.summary.state = Scan(id).state
             /\ last'.summary.issues.high = Cardinality(IssuesOfSeverity(Scan(id), "High"))
             /\ last'.summary.issues.medium = Cardinality(IssuesOfSeverity(Scan(id), "Medium"))
             /\ last'.summary.issues.low = Cardinality(IssuesOfSeverity(Scan(id), "Low"))
             /\ last'.summary.issues.info = Cardinality(IssuesOfSeverity(Scan(id), "Info"))
             /\ \A n \in 1..Len(Sessions(id)) : Len(Sessions(id)[n].issues) <= MaxIssues + 2
             /\ scans' = scans]_vars

\* a summary of a scan whose two sessions hold issues of all five severities,
\* the Fatal one counted nowhere
C20_Witness ==
    /\ last.op = "summary" /\ last.success
    /\ last.summary.issues = [high |-> 1, low |-> 1, medium |-> 1, info |-> 1]
    /\ Cardinality(IssuesOfSeverity(Scan(last.id), "Fatal")) = 1
    /\ Len(Sessions(last.id)[1].issues) > 0
    /\ Len(Sessions(last.id)[2].issues) > 1

\* the places of all the issues attached to the sessions of a scan
IssuePlaces(scan) ==
    { <<n, j>> \in (1..Len(scan.sessions)) \X (1..(MaxIssues + 2)) :
         j <= Len(scan.sessions[n].issues) }

\* the number of issues a summary accounts for: the sum of all its counts
Accounted(summary) ==
    summary.issues.high + summary.issues.medium + summary.issues.low + summary.issues.info

\* C21: a Fatal issue is counted in none of high, medium, low and info, and
\* the summary that GET /scans/<id>/summary returns still accounts for it:
\* when every issue of the scan has one of the five severities, the counts of
\* the summary add up to the number of issues attached to the sessions.
C21_SummaryAccountsForFatal ==
    [][\A id \in ScanIds :
          (last'.op = "summary" /\ last'.id = id /\ last'.success
             /\ \A pl \in IssuePlaces(Scan(id)) :
                   Scan(id).sessions[pl[1]].issues[pl[2]].Severity \in Severities)
          => /\ Accounted(last'.summary)
                  + (IF "fatal" \in DOMAIN last'.summary.issues
                     THEN last'.summary.issues.fatal ELSE 0)
                = Cardinality(IssuePlaces(Scan(id)))
             /\ Accounted(last'.summary)
                = Cardinality(IssuePlaces(Scan(id)))
                  - Cardinality(IssuesOfSeverity(Scan(id), "Fatal"))]_vars

----------------------------------------------------------------------------
(* Properties of requests made on behalf of users *)

\* C22: a scan created on behalf of a user has that user in meta.user and
\* no tags, and both GET /scans/<id> and GET /scans/<id>/summary return this
\* meta: right after a create, the meta of the stored scan names one of the
\* users, its tags are empty, and the scan and the summary a client would get
\* carry the same meta.
C22_MetaRecordsUser ==
    [][Created(last')
       => LET scan == scans'[Len(scans')]
              summary == summarize_scan(sanitize_scan(scan))
          IN /\ "user" \in DOMAIN scan.meta
             /\ scan.meta["user"] \in users
             /\ scan.meta.tags = << >>
             /\ sanitize_scan(scan).meta = scan.meta
             /\ "meta" \in DOMAIN summary
             /\ summary["meta"] = scan.meta]_vars

\* no control command has changed the scan
Untouched(scan) == scan.state = "CREATED" /\ scan.queued = None

\* the requester may see the scan: no e-mail is given, or the target of the
\* scan is a site of a group of the user
MaySee(email, scan) ==
    email = NoEmail \/ scan.configuration.target \in find_sites_for_user(email)

\* C23: as long as no control command has changed a scan, GET /scans/<id>
\* returns exactly the scan that POST /scans returned for it, with or without
\* the e-mail of a requester who may see it, and the GET changes nothing: the
\* scan a GET would return right after the create is the scan of the create's
\* response, it stays the same over every step that leaves the scan
\* untouched, and a GET request returns it and leaves the collection alone.
C23_GetReturnsWhatCreateReturned ==
    [][\A id \in PossibleScanIds :
          /\ \A json \in CreateRequests :
                (Created(last') /\ last'.id = id /\ last'.state = json.plan
                   /\ scans'[Len(scans')].configuration = json.configuration)
                => get_scan(id)' = put_scan_create_response(json)
          /\ (id \in ScanIds /\ Untouched(Scan(id)'))
                => get_scan(id)' = get_scan(id)
          /\ (last'.op = "get" /\ last'.id = id /\ id \in ScanIds
                /\ MaySee(last'.email, Scan(id)))
                => /\ last'.response = get_scan(id)
                   /\ last'.response.success
                   /\ last'.response.scan.id = id
                   /\ last'.response.scan.sessions = sanitize_scan(Scan(id)).sessions
                   /\ scans' = scans]_vars

\* a client that belongs to the group of the target has just read a scan
\* that no control command has changed
C23_Witness ==
    /\ last.op = "get" /\ last.email = MemberEmail
    /\ last.id \in ScanIds
    /\ Untouched(Scan(last.id))
    /\ MaySee(MemberEmail, Scan(last.id))
    /\ last.response.scan.state = "CREATED"
    /\ Len(last.response.scan.sessions) = 2
    /\ last.response.scan.meta = Scan(last.id).meta

\* C24: GET /scans/<id> with the e-mail of a user who belongs to no group
\* that contains the target of the scan answers success = false with reason
\* not-found and shows no field of the scan: the response is the one for an
\* id that no scan has.
C24_OutsiderGetsNotFound ==
    [][\A id \in PossibleScanIds :
          (last'.op = "get" /\ last'.id = id /\ id \in ScanIds
             /\ last'.email \in users
             /\ ~ MaySee(last'.email, Scan(id)))
          => /\ ~ last'.response.success
             /\ "scan" \notin DOMAIN last'.response
             /\ last'.response = get_scan(NoSuchId)
             /\ "reason" \in DOMAIN last'.response
             /\ last'.response["reason"] = "not-found"]_vars

----------------------------------------------------------------------------
(* Properties of the history report *)

\* the places of the scans a requester of the history may see
InScope(email) ==
    { i \in 1..Len(scans) :
        \/ email = NoEmail
        \/ \E g \in groups : email \in g.users /\ scans[i].configuration.target \in g.sites }

\* the place of the scan with this id
PlaceOf(id) == CHOOSE i \in 1..Len(scans) : scans[i].id = id

\* C25: the history report holds summaries of scans sorted by creation time,
\* newest first, at most 100 of them, and they are the most recently created
\* scans in scope: all scans when no user is given, the scans whose target
\* is a site of a group of the user when one is given; a user that does not
\* exist gets no-such-user.
C25_HistoryNewestHundred ==
    [][last'.op = "history"
       => LET email == last'.email
              response == last'.response
          IN IF email # NoEmail /\ email \notin users
             THEN response = [success |-> FALSE, reason |-> "no-such-user"]
             ELSE LET report == response.report
                      shown == { report[k].id : k \in 1..Len(report) }
                  IN /\ response.success
                     /\ Len(report) <= 100
                     /\ Len(report) = IF Cardinality(InScope(email)) < 100
                                      THEN Cardinality(InScope(email)) ELSE 100
                     /\ Cardinality(shown) = Len(report)
                     /\ \A k \in 1..Len(report) :
                           /\ \E i \in InScope(email) : scans[i].id = report[k].id
                           /\ report[k] = summarize_scan(sanitize_scan(Scan(report[k].id)))
                     /\ \A k \in 1..(Len(report) - 1) :
                           /\ report[k].created >= report[k + 1].created
                           /\ Scan(report[k].id).created >= Scan(report[k + 1].id).created
                     /\ \A i \in InScope(email) :
                           scans[i].id \notin shown
                           => \A id \in shown : scans[i].created <= Scan(id).created
                     /\ scans' = scans]_vars

\* a history of more than 100 scans of the group's site for a member of the
\* group: the two oldest scans are left out, the newest comes first
C25_Witness ==
    /\ last.op = "history" /\ last.email = MemberEmail
    /\ Cardinality(InScope(MemberEmail)) = 102
    /\ Len(last.response.report) = 100
    /\ last.response.report[1].id = scans[102].id
    /\ last.response.report[100].id = scans[3].id
    /\ scans[1].created < scans[3].created

----------------------------------------------------------------------------
(* Properties of infrastructure errors *)

\* the scan waits to be started or stopped and no queue holds a message for it
Stranded(id) ==
    /\ id \in ScanIds
    /\ Scan(id).state \in {"QUEUED", "STOPPING"}
    /\ Count(scanQueue, id) + Count(stateQueue, id) = 0

\* C26: when the queue or the collection fails while a control command for
\* a scan is handled, the scan is marked FAILED, and no scan is ever left
\* QUEUED or STOPPING without a message for it in a queue.
C26_InfrastructureErrorFailsScan ==
    [][\A id \in PossibleScanIds :
          /\ (last'.op = "control" /\ last'.id = id /\ last'.error \in InfrastructureErrors)
                => (Scan(id).state = "FAILED")'
          /\ ~ Stranded(id)']_vars

----------------------------------------------------------------------------
(* Properties of the plugin registry *)

\* the class names the loops have passed
Passed == AllowListed \ { startup.pending[i] : i \in 1..Len(startup.pending) }

C28_GetPlanResolvesEveryStep ==
    [][\A name \in DOMAIN plans :
          (last'.op = "get_plan" /\ last'.state = name)
          => LET workflow == stored_plan(name).workflow
                 response == last'.response
             IN IF \A i \in 1..Len(workflow) : workflow[i].plugin_name \in DOMAIN startup.plugins
                THEN /\ response.success
                     /\ Len(response.plan.workflow) = Len(workflow)
                     /\ \A i \in 1..Len(workflow) :
                           /\ "plugin" \in DOMAIN response.plan.workflow[i]
                           /\ response.plan.workflow[i]["plugin"]
                                = startup.plugins[workflow[i].plugin_name].descriptor
                ELSE /\ ~ response.success
                     /\ "plan" \notin DOMAIN response
                     /\ "error" \in DOMAIN response
                     /\ response["error"] = "UnknownPlugin"]_vars

----------------------------------------------------------------------------
(* Properties of the plugins and of the scenarios *)

\* the scan has run as the scenario says: both sessions and the scan are
\* FINISHED, session 1 holds the one Info issue of Alive, session 2 the one
\* Info issue that says the header is set, and the summary counts two Info
\* issues and no High issue
FinishedAsExpected(id) ==
    /\ id \in ScanIds
    /\ Scan(id).state = "FINISHED"
    /\ Len(Sessions(id)) = 2
    /\ \A n \in 1..2 : Sessions(id)[n].state = "FINISHED"
    /\ Len(Sessions(id)[1].issues) = 1
    /\ Sessions(id)[1].issues[1].Severity = "Info"
    /\ Sessions(id)[1].issues[1].Summary = "Site is reachable"
    /\ Len(Sessions(id)[2].issues) = 1
    /\ Sessions(id)[2].issues[1].Severity = "Info"
    /\ Sessions(id)[2].issues[1].Summary = "X-Frame-Options header is set properly"
    /\ summarize_scan(sanitize_scan(Scan(id))).issues.info = 2
    /\ summarize_scan(sanitize_scan(Scan(id))).issues.high = 0

\* C29: a started scan of the two-step plan (Alive, XFrameOptions) against a
\* reachable target that sends X-Frame-Options: SAMEORIGIN ends, under fair
\* scheduling, with the scan and both sessions FINISHED, one Info issue in
\* each session and a summary with info = 2 and high = 0; it ends in no other
\* way, and every summary a client gets of the ended scan says so.
C29_SameOriginScanFinishes ==
    \A id \in PossibleScanIds :
        /\ (id \in ScanIds /\ Scan(id).state = "QUEUED") ~> FinishedAsExpected(id)
        /\ []((id \in ScanIds /\ Scan(id).state \in ScanTerminal) => FinishedAsExpected(id))
        /\ []((last.op = "summary" /\ last.id = id /\ id \in ScanIds
                 /\ Scan(id).state \in ScanTerminal)
               => (last.summary.state = "FINISHED" /\ last.summary.issues.info = 2
                     /\ last.summary.issues.high = 0))

\* a client has read the summary of a scan that ended in this scenario
C29_Witness ==
    /\ last.op = "summary" /\ last.success
    /\ FinishedAsExpected(last.id)
    /\ last.summary.issues = [high |-> 0, low |-> 0, medium |-> 0, info |-> 2]
    /\ Scan(last.id).finished # None

\* C30: every run of Alive reports exactly one issue and ends in one of two
\* ways: the target answered with a success status, the issue is the Info
\* issue 'Site is reachable' and the run ends normally; or the request failed
\* or the status was not a success, the issue has severity Fatal and the run
\* returns ABORTED. The session of the run gets that one issue, and the
\* state FINISHED in the first case, ABORTED in the second.
C30_AliveOneIssueTwoOutcomes ==
    [][/\ \A r \in Responses :
             LET result == AlivePlugin_do_run(r)
             IN /\ Len(result.issues) = 1
                /\ IF r.status = "ok"
                   THEN /\ result.issues[1].Severity = "Info"
                        /\ result.issues[1].Summary = "Site is reachable"
                        /\ result.exit = "EXIT"
                   ELSE /\ result.issues[1].Severity = "Fatal"
                        /\ result.exit = "ABORTED"
                        /\ (r.status = "bad") => (result.issues[1].Summary = "Site could not be reached")
       /\ \A id \in PossibleScanIds, n \in 1..2 :
             (last'.op = "plugin_return" /\ last'.id = id /\ id \notin stopObserved
                /\ inflight[id] = n
                /\ Sessions(id)[n].plugin.class = AlivePluginName)
             => LET before == Sessions(id)[n].issues
                    after == (Sessions(id)[n].issues)'
                    state == (Sessions(id)[n].state)'
                IN /\ Len(after) = Len(before) + 1
                   /\ SubSeq(after, 1, Len(before)) = before
                   /\ \/ /\ after[Len(after)] = AliveGood
                         /\ last'.state = "EXIT"
                         /\ state = "FINISHED"
                      \/ /\ after[Len(after)].Severity = "Fatal"
                         /\ last'.state = "ABORTED"
                         /\ state = "ABORTED"]_vars

\* a run of Alive against a target that answered with an error status has
\* just ended: one Fatal issue, the session ABORTED
C30_Witness ==
    /\ last.op = "plugin_return" /\ last.state = "ABORTED"
    /\ last.id \in ScanIds
    /\ Sessions(last.id)[1].plugin.class = AlivePluginName
    /\ Sessions(last.id)[1].state = "ABORTED"
    /\ Sessions(last.id)[1].issues = <<AliveBad>>
    /\ Sessions(last.id)[2].state = "CREATED"

----------------------------------------------------------------------------
(* Properties of the CSP plugin *)

\* the codes of a sequence of issues
Codes(issues) == { issues[i].Code : i \in 1..Len(issues) }

\* a policy without a directive problem: every directive is one of CSP 1.0,
\* 'none' stands alone, and script-src and style-src allow neither
\* unsafe-inline nor unsafe-eval
NoDirectiveProblems(csp) ==
    \A i \in 1..Len(csp) :
        csp[i] # << >>
        => /\ csp[i][1] \in DIRECTIVES
           /\ \A j \in 2..Len(csp[i]) :
                 /\ csp[i][j] = "'none'" => Len(csp[i]) = 2
                 /\ csp[i][1] \in {"script-src", "style-src"}
                      => csp[i][j] \notin {"'unsafe-inline'", "'unsafe-eval'"}

\* the issue codes C31 expects for the headers that are present
ExpectedHeaderCodes(headers) ==
    LET C == CSP \in headers
        CR == CSP_RO \in headers
        X == XCSP \in headers
        XR == XCSP_RO \in headers
    IN (IF C THEN {"CSP-1"} ELSE {"CSP-2"})
       \cup (IF C /\ CR THEN {"CSP-7"} ELSE {})
       \cup (IF CR /\ ~C THEN {"CSP-3"} ELSE {})
       \cup (IF X THEN {"CSP-4"} ELSE {"CSP-5"})
       \cup (IF X /\ XR THEN {"CSP-8"} ELSE {})
       \cup (IF XR /\ ~X THEN {"CSP-6"} ELSE {})

----------------------------------------------------------------------------
(* Properties of the invitations *)

\* the invitations of a recipient
InvitationsOf(recipient) ==
    { i \in 1..Len(db.invites) : db.invites[i].recipient = recipient }

\* C32: after any sequence of create-invitation requests, handled one at a
\* time or interleaved, at most one invitation record exists per recipient.
C32_OneInvitationPerRecipient ==
    \A i, j \in 1..Len(db.invites) :
        db.invites[i].recipient = db.invites[j].recipient => i = j

\* the users that have this e-mail
UsersOf(email) == { user \in db.users : user.email = email }

\* the groups without this e-mail, every other member in its place
Without(coll, email) ==
    [g \in DOMAIN coll |-> SelectSeq(coll[g], LAMBDA u : u # email)]

\* the invitations but the one with this id, in their order
Others(coll, id) == SelectSeq(coll, LAMBDA invite : invite.id # id)

\* C33: deleting an invitation removes the invitation record and no other;
\* it removes the user record of the recipient and the recipient's group
\* memberships if and only if that user's status is still 'invited' (a user
\* who is 'active' is kept unchanged, and so are all other users and
\* memberships); deleting an id that has no invitation returns success=false
\* and changes no user, group or invitation.
C33_DeleteInvite ==
    [][\A id \in InviteIds :
         (last'.op = "delete_invite" /\ last'.id = id)
         => LET invitation == invites_find_one_id(id)
                email == invitation.recipient
            IN IF invitation = NoInvite
               THEN ~last'.success /\ db' = db
               ELSE /\ last'.success
                    /\ db'.invites = Others(db.invites, id)
                    /\ Len(db'.invites) = Len(db.invites) - 1
                    /\ db'.outbox = db.outbox
                    /\ IF \E user \in UsersOf(email) : user.status = "invited"
                       THEN /\ db'.users = db.users \ UsersOf(email)
                            /\ db'.groups = Without(db.groups, email)
                            /\ \A g \in DOMAIN db'.groups :
                                  \A i \in 1..Len(db'.groups[g]) : db'.groups[g][i] # email
                       ELSE /\ db'.users = db.users
                            /\ db'.groups = db.groups]_vars

\* the pending invitation of the first recipient has been deleted: the
\* recipient is no user and in no group any more, the invitation of the
\* second recipient and the second recipient are still there
C33_Witness ==
    /\ last.op = "delete_invite" /\ last.success
    /\ UsersOf(AliceEmail) = {}
    /\ db.groups["test_group1"] = <<ExistingEmail>>
    /\ db.groups["test_group2"] = <<BettyEmail>>
    /\ Len(db.invites) = 1
    /\ db.invites[1].recipient = BettyEmail
    /\ db.invites[1].id = 2
    /\ \E user \in UsersOf(BettyEmail) : user.status = "invited"

\* the invitation of a recipient who accepted it has been deleted: the
\* recipient is still a user, 'active', and still in the group
C33_WitnessAcceptedUserKept ==
    /\ last.op = "delete_invite" /\ last.success
    /\ db.invites = << >>
    /\ \E user \in UsersOf(AliceEmail) : user.status = "active"
    /\ db.groups["test_group1"] = <<AliceEmail>>

\* C34: declining a pending invitation sets the status of the invitation to
\* 'declined' and keeps the record, removes the user record of the
\* recipient, and removes the e-mail of the recipient from every group, so
\* that afterwards no user has that e-mail and no group lists it; nothing
\* else changes in the users, the groups and the invitations.
C34_DeclineInvitation ==
    [][\A id \in InviteIds :
         LET invitation == invites_find_one_id(id)
             email == invitation.recipient
         IN (last'.op = "decline_invitation" /\ last'.id = id
               /\ invitation # NoInvite /\ invitation.status = "pending")
            => /\ last'.success
               /\ last'.response.invite.status = "declined"
               /\ db'.invites = [i \in 1..Len(db.invites) |->
                                   IF db.invites[i].id = id
                                   THEN [db.invites[i] EXCEPT !.status = "declined"]
                                   ELSE db.invites[i]]
               /\ UsersOf(email) # {}
               /\ db'.users = db.users \ UsersOf(email)
               /\ \A user \in db'.users : user.email # email
               /\ db'.groups = Without(db.groups, email)
               /\ \A g \in DOMAIN db'.groups :
                     \A i \in 1..Len(db'.groups[g]) : db'.groups[g][i] # email]_vars

\* the first recipient, who was in two groups, has declined: the invitation
\* is kept as declined, the recipient is no user and in no group
C34_Witness ==
    /\ last.op = "decline_invitation" /\ last.success
    /\ \E i \in 1..Len(db.invites) :
          /\ db.invites[i].recipient = AliceEmail
          /\ db.invites[i].status = "declined"
          /\ db.invites[i].id = last.id
    /\ UsersOf(AliceEmail) = {}
    /\ db.groups["test_group1"] = <<ExistingEmail>>
    /\ db.groups["test_group2"] = <<BettyEmail>>
    /\ Cardinality(db.users) = 3

\* the e-mails a group lists
Members(coll, g) == { coll[g][i] : i \in 1..Len(coll[g]) }

\* C35: accepting a pending invitation with a login e-mail different from
\* the invited e-mail succeeds and marks the invitation accepted; if no user
\* has the login e-mail, the invited user record keeps its id, takes the
\* login e-mail and becomes 'active'; if a user with the login e-mail
\* exists, the invited account is removed and the existing account is kept
\* as it is; in both cases no user has the invited e-mail any more, every
\* group that listed the invited e-mail lists the login e-mail instead, and
\* the other members and the other groups are unchanged.
C35_AcceptWithOtherLogin ==
    [][\A id \in InviteIds, json \in AcceptRequests :
         LET invitation == invites_find_one_id(id)
             email == invitation.recipient
             login == json.login
         IN (last'.op = "accept_invite" /\ last'.id = id /\ last'.json = json
               /\ invitation # NoInvite /\ invitation.status = "pending" /\ login # email)
            => /\ last'.success
               /\ db'.invites = [i \in 1..Len(db.invites) |->
                                   IF db.invites[i].id = id
                                   THEN [db.invites[i] EXCEPT !.status = "accepted",
                                                              !.accepted_on = clock]
                                   ELSE db.invites[i]]
               /\ UsersOf(email) # {}
               /\ IF UsersOf(login) = {}
                  THEN db'.users = (db.users \ UsersOf(email))
                                   \cup { [id |-> user.id, email |-> login, name |-> user.name,
                                           status |-> "active"] : user \in UsersOf(email) }
                  ELSE db'.users = db.users \ UsersOf(email)
               /\ \A user \in db'.users : user.email # email
               /\ DOMAIN db'.groups = DOMAIN db.groups
               /\ \A g \in DOMAIN db.groups :
                     IF email \in Members(db.groups, g)
                     THEN /\ login \in Members(db'.groups, g)
                          /\ email \notin Members(db'.groups, g)
                          /\ Members(db'.groups, g) \ {login} = Members(db.groups, g) \ {email, login}
                     ELSE db'.groups[g] = db.groups[g]]_vars

\* the recipient, who was in two groups, has accepted with the e-mail of a
\* user who has an account and is in one of them: the invited account is
\* gone, the existing account is as it was, both groups list the login
C35_Witness ==
    /\ last.op = "accept_invite" /\ last.success
    /\ last.json.login = ExistingEmail
    /\ UsersOf(AliceEmail) = {}
    /\ UsersOf(ExistingEmail) = {[id |-> 104, email |-> ExistingEmail, name |-> "Existing", status |-> "active"]}
    /\ Members(db.groups, "test_group1") = {ExistingEmail}
    /\ db.groups["test_group2"] = <<BettyEmail, ExistingEmail>>
    /\ db.invites[1].status = "accepted"

\* the recipient has accepted with an e-mail that no user had: the invited
\* user record has its id, the new e-mail and the status 'active'
C35_WitnessNewLogin ==
    /\ last.op = "accept_invite" /\ last.success
    /\ last.json.login = PersonaEmail
    /\ UsersOf(AliceEmail) = {}
    /\ UsersOf(PersonaEmail) = {[id |-> 102, email |-> PersonaEmail, name |-> "Alice", status |-> "active"]}
    /\ db.groups["test_group1"] = <<PersonaEmail>>
    /\ db.groups["test_group2"] = <<ExistingEmail>>

\* C36: accept_invite on an invitation whose expire_on (sent_on +
\* max_time_allowed seconds) lies in the past sets the status of the
\* invitation to 'expired', leaves accepted_on null and does not activate,
\* rename or remove any user; invite_has_expired returns true exactly when
\* the current time is later than expire_on.
C36_ExpiredInvitationIsNotAccepted ==
    [][\A id \in InviteIds :
         LET invitation == invites_find_one_id(id)
         IN /\ (last'.op = "accept_invite" /\ last'.id = id
                  /\ load_user_and_invite(id).error = ""
                  /\ invitation.expire_on = invitation.sent_on + timedelta(invitation.max_time_allowed)
                  /\ invitation.expire_on < clock)
               => /\ \E i \in 1..Len(db'.invites) :
                        /\ db'.invites[i].id = id
                        /\ db'.invites[i].status = "expired"
                        /\ db'.invites[i].accepted_on = None
                  /\ db'.users = db.users
                  /\ db'.groups = db.groups
            /\ invitation # NoInvite
               => \A utcnow \in 0..MaxClock :
                     invite_has_expired(invitation, utcnow) <=> (utcnow > invitation.expire_on)]_vars

\* C37: a used invitation is not reusable: an invitation is 'accepted'
\* exactly when its accepted_on is set, and once it is, every later accept,
\* decline or resend request for it returns success=false and leaves the
\* invitation (status 'accepted', accepted_on, sent_on, expire_on), all
\* users and all groups unchanged, and sends no e-mail.
C37_UsedInvitationNotReusable ==
    [][/\ \A i \in 1..Len(db'.invites) :
             (db'.invites[i].status = "accepted") <=> (db'.invites[i].accepted_on # None)
       /\ \A id \in InviteIds :
             (last'.op \in {"accept_invite", "decline_invitation", "resend_invitation"}
                /\ last'.id = id
                /\ invites_find_one_id(id) # NoInvite
                /\ invites_find_one_id(id).accepted_on # None)
             => /\ ~last'.success
                /\ last'.error \in {"Used invitation is not reusable.", "User not found."}
                /\ db' = db
                /\ invites_find_one_id(id).status = "accepted"]_vars

\* a recipient who accepted the invitation with the invited e-mail asks
\* for it to be sent again, later: the request is refused, the invitation
\* has the times of its sending and of its acceptance
C37_Witness ==
    /\ last.op = "resend_invitation" /\ ~last.success
    /\ last.error = "Used invitation is not reusable."
    /\ Len(db.invites) = 1
    /\ db.invites[1].id = last.id
    /\ db.invites[1].status = "accepted"
    /\ db.invites[1].sent_on = 0
    /\ db.invites[1].accepted_on = 1
    /\ clock = 3
    /\ \E user \in UsersOf(AliceEmail) : user.status = "active"

\* the mail server has accepted the invitation e-mail of this invitation
EmailSent(outbox, invite) ==
    \E mail \in outbox : mail.action_type = "invite" /\ mail.id = invite.id

\* C38: if sending the invitation e-mail fails with an SMTP error,
\* create_invites returns success=false with the failure reason and inserts
\* no invitation record; an invitation record with status 'pending' and a
\* sent_on timestamp exists only if its e-mail was sent.
C38_FailedEmailStoresNoInvitation ==
    [][/\ \A json \in CreateInvitesRequests :
             (last'.op = "create_invites" /\ last'.json = json
                /\ create_invites_refusal(users_find_one(json.recipient),
                                          invites_find_one_recipient(json.recipient),
                                          users_find_one(json.sender)) = ""
                /\ db'.outbox = db.outbox)
             => /\ ~last'.success
                /\ last'.error \in { send_email("invite", NoInvite, smtp).reason :
                                       smtp \in SMTPExceptions }
                /\ db'.invites = db.invites
       /\ \A i \in 1..Len(db'.invites) :
             (db'.invites[i].status = "pending" /\ db'.invites[i].sent_on # None)
             => EmailSent(db'.outbox, db'.invites[i])]_vars

----------------------------------------------------------------------------
(* Properties of a create for a plan with an unregistered plugin *)

\* the plan has a step whose plugin is not in the registry
HasUnregisteredStep(plan_name) ==
    /\ plan_name \in DOMAIN plans
    /\ \E i \in 1..Len(plans[plan_name].workflow) :
          plans[plan_name].workflow[i].plugin_name \notin DOMAIN startup.plugins

\* C39: a create for a plan that has a step whose plugin is not in the
\* registry fails and persists nothing: the collection of scans, the queues
\* and the ids are as before; and every stored scan has as many sessions as
\* the workflow of its plan has steps, each with the descriptor {class, name,
\* version, weight} that the registry holds for the plugin of its step.
C39_UnregisteredPluginStoresNothing ==
    [][/\ (last'.op = "create" /\ HasUnregisteredStep(last'.state))
            => /\ ~last'.success
               /\ UNCHANGED <<scans, nextId, scanQueue, stateQueue, running, inflight>>
       /\ \A k \in 1..Len(scans') :
             LET scan == scans'[k]
                 workflow == plans[scan.plan.name].workflow
             IN /\ Len(scan.sessions) = Len(workflow)
                /\ \A n \in 1..Len(scan.sessions) :
                      /\ "plugin" \in DOMAIN scan.sessions[n]
                      /\ DOMAIN scan.sessions[n].plugin = {"class", "name", "version", "weight"}
                      /\ workflow[n].plugin_name \in DOMAIN startup.plugins
                      /\ scan.sessions[n].plugin = startup.plugins[workflow[n].plugin_name].descriptor
                      /\ scan.sessions[n].plugin.class = workflow[n].plugin_name]_vars

\* on a host where the nmap plugin cannot be imported a scan of the plan
\* basic is stored, and a create for the plan nmap has just failed on its
\* second step: the collection still holds the one scan
C39_Witness ==
    /\ startup.pending = << >>
    /\ startup.loads[NMAPPluginName] = "ImportError"
    /\ NMAPPluginName \notin DOMAIN startup.plugins
    /\ last.op = "create" /\ last.state = "nmap" /\ ~last.success /\ last.error = "KeyError"
    /\ Len(scans) = 1
    /\ scans[1].plan.name = "basic"
    /\ nextId = 4

\* on a host where the nmap plugin can be imported the scan of the plan nmap
\* is stored with its two sessions
C39_WitnessRegistered ==
    /\ last.op = "create" /\ last.state = "nmap" /\ last.success
    /\ Len(scans) = 1
    /\ Len(scans[1].sessions) = 2
    /\ scans[1].sessions[2].plugin.class = NMAPPluginName

====
